---------------------------- MODULE Spec2Model ----------------------------
(***************************************************************************)
(* Verification model of the FD video pipeline (iluha78/FD):               *)
(*   - the ingestor's stream Manager (start/stop commands, extraction      *)
(*     loop with retry and back-off), alone and as a fleet of ingestors    *)
(*     subscribed to the control subject;                                  *)
(*   - the frame path (frame upload, frame task, worker, detection event,  *)
(*     event distributor, periodic frame cleanup);                         *)
(*   - the worker's per-stream Tracker and its lazy creation;              *)
(*   - the extractor's MJPEG demultiplexer and the WebSocket hub;          *)
(*   - the recognition steps of ProcessFrame (throttle, snapshot,          *)
(*     collection scope, embedding) and the worker's shutdown.             *)
(***************************************************************************)
EXTENDS Integers, Sequences, FiniteSets, TLC

\* ------------------------------------------------------------------------
\* Bounds of the model
\* ------------------------------------------------------------------------

\* Control commands the API publishes in one behaviour (one ingestor).
MaxCmds == 3

\* Control commands the API publishes in one behaviour (fleet of ingestors).
MaxFleetCmds == 2

\* Frames the extractor emits in one behaviour.
MaxFrames == 2

\* cfg.Storage.FrameRetention: frame blobs the cleanup keeps per stream.
Retention == 1

\* cfg.Tracking.MaxAge: frames a track survives without a matching detection.
TrackMaxAge == 1

\* JPEGs in the demultiplexer's input.
MaxJpegs == 2

\* Bytes between the start marker and the end marker of a JPEG.
MaxBody == 1

\* Bytes that may be missing from the end of the demultiplexer's input.
MaxCut == 3

\* BroadcastEvent calls in one behaviour.
MaxBroadcasts == 2

\* Slots of a client's send buffer (make(chan []byte, 64) in the code).
SendCap == 1

\* Frame tasks the worker loops take in one behaviour.
MaxTasks == 4

\* Frame tasks of the stream whose recognition steps are followed.
MaxPipeFrames == 3

\* Seconds the wall clock advances in one behaviour.
MaxTime == 3

\* Components of an embedding vector (embDim, 512 in NewEmbedder).
EmbDim == 2

\* Frame messages the worker process fetches before it exits.
MaxFetched == 3

\* Unparseable messages published on the frames subject in one behaviour.
MaxGarbage == 1

\* Frame tasks of the stream handed to the concurrent worker loops.
MaxLockFrames == 3

\* Frames of one stream given to ProcessFrame.
MaxUpdates == 3

\* Detection events published in one behaviour.
MaxEvents == 2

\* ------------------------------------------------------------------------
\* Program constants
\* ------------------------------------------------------------------------

\* const maxRetries = 3 in the extraction loop.
MaxRetries == 3

\* MaxDeliver of the FRAMES consumer.
MaxDeliver == 3

\* broadcast: make(chan []byte, 256) in NewHub.
BroadcastCap == 256

\* const maxStartupRetries = 50 in readJPEGFrames.
MaxStartupRetries == 50

\* "Safety: max 10MB per frame" in readUntilJPEGEnd.
MaxFrameBytes == 10485760

\* cfg.Tracking.MinHits (default).
MinHits == 3

\* cfg.Tracking.ReRecognizeInterval (default), in seconds.
ReRecognizeInterval == 3

\* The bytes 0xFF, 0xD8 and 0xD9 of the JPEG start and end markers.
FF == 255

D8 == 216

D9 == 217

\* ------------------------------------------------------------------------
\* Stream manager (ingestor)
\* ------------------------------------------------------------------------

VARIABLES
    streamType,     \* streams table: stream id -> stream_type (fixed at creation)
    dbStatus,       \* streams table: stream id -> [status, msg]
    inbox,          \* per ingestor process: control messages not yet dispatched
    published,      \* number of control commands published so far
    startsPublished,\* per stream id: start commands published so far
    streams,        \* Manager.streams per process: stream id -> loop id (0 = no entry)
    handlers,       \* per process, per callback goroutine: position in HandleCommand
    loops,          \* extraction-loop goroutines, in order of launch
    startsHandled,  \* per process: start commands handled so far
    exits,          \* per process: extraction loops that ran their deferred exit
    lastResult      \* per process: what HandleCommand returned last

mgrVars == <<streamType, dbStatus, inbox, published, startsPublished, streams, handlers,
             loops, startsHandled, exits, lastResult>>

\* Frame path: blob store, FRAMES work queue, worker, EVENTS log, distributor.
VARIABLES
    blobs,          \* keys of the frame blobs in the bucket
    usedKeys,       \* frame keys the ingestor has generated so far
    stored,         \* frame keys whose PutObject has returned nil
    cb,             \* the per-frame callback: [pc, key, failed]
    framesQ,        \* FRAMES: pending frame tasks [key, deliveries]
    inflight,       \* the delivery a worker loop is handling (pc "idle" if none)
    eventsQ,        \* EVENTS: detection events not yet consumed
    eventRows,      \* rows of the events table, in order of insertion
    acks,           \* deliveries <<key, delivery number>> that were acked
    naks,           \* deliveries <<key, delivery number>> that were nacked
    lostEvents,     \* deliveries one of whose events failed to publish
    garbage         \* unparseable messages published on the frames subject

frameVars == <<blobs, usedKeys, stored, cb, framesQ, inflight, eventsQ, eventRows, acks, naks,
               lostEvents, garbage>>

\* Worker: Pipeline.trackers and the Tracker objects.
VARIABLES
    trackers,       \* Pipeline.trackers: stream id -> tracker object (0 = none)
    trackerObjs,    \* the Tracker objects allocated so far
    workers,        \* worker loops: position in ProcessFrame
    minted,         \* every track created so far: [stream, n, obj]
    tasksTaken,     \* frame tasks taken by the worker loops so far
    crashed         \* the runtime aborted the worker process

trkVars == <<trackers, trackerObjs, workers, minted, tasksTaken, crashed>>

\* JPEG demultiplexer of the extractor (readJPEGFrames on ffmpeg's stdout).
VARIABLES
    jpegs,          \* the JPEGs whose concatenation ffmpeg wrote
    cut,            \* bytes missing from the end of that concatenation
    rd,             \* bytes the reader has not consumed yet
    emitted,        \* frames handed to the callback, in order
    framesRead,     \* framesRead of readJPEGFrames
    startupRetries, \* startupRetries of readJPEGFrames
    dmxResult,      \* "running", or what readJPEGFrames returned
    framesLog       \* FRAMES: capture numbers of the frame tasks published

dmxVars == <<jpegs, cut, rd, emitted, framesRead, startupRetries, dmxResult,
             framesLog>>

\* WebSocket hub of the API.
VARIABLES
    hubClients,     \* h.clients
    cl,             \* per Client: [phase, filter, send, closes, rp, wp, slow, got]
    hub,            \* the Run goroutine: [pc, msg, toVisit, start, dropped, delivered]
    bcast,          \* h.broadcast: events waiting for the hub
    bcastCount      \* BroadcastEvent calls so far

hubVars == <<hubClients, cl, hub, bcast, bcastCount>>

\* Recognition steps of ProcessFrame for one stream.
VARIABLES
    binding,        \* the stream row's collection binding (st.CollectionID)
    now,            \* the wall clock, in seconds
    frameTasks,     \* frame tasks published for the stream, not yet processed
    framesDone,     \* frame tasks processed so far
    tracker,        \* the stream's Tracker
    trackRec,       \* per track id: [Embedding, LastRecognized]
    lastCall,       \* ProcessFrame past ShouldRecognize: its locals
    searches,       \* collection scopes of the SearchFaces calls made
    snapshots,      \* snapshot blobs written, as <<track id, time>>
    results,        \* DetectionResults published on the events subject
    lastFrame       \* the last frame that reached the tracker: its updates, what
                    \* was done for each, what ProcessFrame returned

pipeVars == <<binding, now, frameTasks, framesDone, tracker, trackRec, lastCall,
              searches, snapshots, results, lastFrame>>

\* Shutdown of the worker process.
VARIABLES
    mainPc,         \* main: "running", "grace" (after cancel()) or "exited"
    fetchPc,        \* the fetch loop of ConsumeFrames: "running" or "returned"
    fetched,        \* frame messages fetched so far
    msgCh,          \* msgCh: messages queued for the worker loops
    handling,       \* per worker loop: the message its handler holds (0 = none)
    answered        \* messages acked or nacked, as <<message, answer>>

shutVars == <<mainPc, fetchPc, fetched, msgCh, handling, answered>>

\* Worker loops of one process on the frames of one stream: who holds t.mu
\* and who is touching the fields of which Track.
VARIABLES
    mu,             \* t.mu of the stream's Tracker: the loop holding it (0 = free)
    guarded,        \* the stream's Tracker
    pf,             \* per worker loop: position in ProcessFrame and its locals
    pfTaken         \* frame tasks of the stream handed to the loops so far

lockVars == <<mu, guarded, pf, pfTaken>>

\* One Tracker and the calls of its Update.
VARIABLES
    tk,             \* the Tracker
    call,           \* the last Update call: its receiver, arguments and results
    calls,          \* frames of the stream processed so far
    sinceMatch      \* per live track: frames processed since a detection matched it

updVars == <<tk, call, calls, sinceMatch>>

\* The event consumer of the API (the distributor) and the EVENTS stream.
VARIABLES
    evPublished,    \* detection events published on the events subject so far
    evDeliveries,   \* per event: deliveries of its message made so far
    evAcked,        \* events whose ack has reached the server
    dist,           \* the fetch loop: [pc, ev] (pc "idle", "handle" or "ack")
    evRows,         \* rows of the events table: the event each was made from
    evCasts         \* hub.BroadcastEvent calls: the event each was made from

distVars == <<evPublished, evDeliveries, evAcked, dist, evRows, evCasts>>

vars == <<mgrVars, frameVars, trkVars, dmxVars, hubVars, pipeVars, shutVars,
          lockVars, updVars, distVars>>

\* Stream rows of the model.
StreamIds == {"s1"}

\* cmd.Type, copied by the API from the stream row.
StreamType(s) == streamType[s]

\* Ingestor processes, and the goroutines that may run HandleCommand in one.
Procs == {"p1", "p2"}

Handlers == {1, 2}

LoopIds == 1..Len(loops)

\* A callback goroutine between two messages (its locals are gone).
IdleHandler == [pc |-> "idle", sid |-> "none", as |-> 0]

\* Callback goroutines are interchangeable: the free one of least name takes
\* the next message.
Takes(p, h) ==
    /\ handlers[p][h].pc = "idle"
    /\ \A g \in Handlers : handlers[p][g].pc = "idle" => ~(g < h)

\* A loop goroutine that has returned (its locals are gone).
DoneLoop(p, s) ==
    [proc |-> p, sid |-> s, pc |-> "done", attempt |-> 0,
     cancelled |-> FALSE, killed |-> FALSE,
     waits |-> <<>>, invocations |-> 0,
     lastStatus |-> "none", lastMsg |-> "", lastErr |-> "none",
     stoppedIn |-> "none"]

NewLoop(p, s) ==
    [proc |-> p, sid |-> s, pc |-> "launched", attempt |-> 0,
     cancelled |-> FALSE, killed |-> FALSE,
     waits |-> <<>>, invocations |-> 0,
     lastStatus |-> "none", lastMsg |-> "", lastErr |-> "none",
     stoppedIn |-> "none"]

\* Faulty variant of UpdateStatus: the status write is lost.
KeepStatus(db, s, st, msg) == db

\* Manager.updateStatus -> PostgresStore.UpdateStreamStatus
UpdateStatus(db, s, st, msg) == [db EXCEPT ![s] = [status |-> st, msg |-> msg]]

\* Faulty variant of Delay: a linear back-off.
DelayLinear(attempt) == 2 * attempt

\* time.Duration(1<<uint(attempt)) * time.Second
Delay(attempt) == 2 ^ attempt

\* Faulty variant of Exists: the lookup never finds the entry.
NeverExists(m, s) == FALSE

\* _, exists := m.streams[cmd.StreamID]
Exists(m, s) == m[s] # 0

\* Faulty variant of DeleteEntry: the deferred delete is missing.
KeepEntry(m, s) == m

\* delete(m.streams, cmd.StreamID)
DeleteEntry(m, s) == [m EXCEPT ![s] = 0]

\* FFmpegExtractor.Stop on the extractor stored in the entry (the one of the
\* first attempt): a no-op until StartExtraction has set cancel and cmd.
KillExtractor(ls, l) ==
    IF ls[l].pc # "done" /\ ls[l].invocations >= 1
    THEN [ls EXCEPT ![l].killed = TRUE] ELSE ls

\* Faulty variant of CancelScope: a second cancel revives the scope.
CancelToggle(ls, l) ==
    IF ls[l].pc = "done" THEN ls ELSE [ls EXCEPT ![l].cancelled = ~@]

\* as.cancel(): cancels the stream's scope (nothing is left to cancel once
\* the loop goroutine has returned).
CancelScope(ls, l) ==
    IF ls[l].pc = "done" THEN ls
    ELSE [ls EXCEPT ![l].cancelled = TRUE,
                    ![l].stoppedIn = IF ls[l].cancelled THEN @ ELSE ls[l].pc]

\* stopStream on an entry: extractor.Stop() then cancel().
StopApply(ls, l) == CancelScope(KillExtractor(ls, l), l)

\* The loop's status write (a row update) together with its own record of it.
LoopWrites(l, st, msg, nextPc) ==
    /\ dbStatus' = UpdateStatus(dbStatus, loops[l].sid, st, msg)
    /\ loops' = [loops EXCEPT ![l].lastStatus = st, ![l].lastMsg = msg,
                              ![l].pc = nextPc]

MgrInit ==
    /\ streamType \in [StreamIds -> {"rtsp", "youtube"}]
    /\ dbStatus = [s \in StreamIds |-> [status |-> "stopped", msg |-> ""]]
    /\ inbox = [p \in Procs |-> <<>>]
    /\ published = 0
    /\ startsPublished = [s \in StreamIds |-> 0]
    /\ streams = [p \in Procs |-> [s \in StreamIds |-> 0]]
    /\ handlers = [p \in Procs |-> [h \in Handlers |-> IdleHandler]]
    /\ loops = <<>>
    /\ startsHandled = [p \in Procs |-> 0]
    /\ exits = [p \in Procs |-> 0]
    /\ lastResult = [p \in Procs |-> "none"]

\* PublishControl: raw pub-sub, every subscribed ingestor gets the message.
Publish(subs, max, cmd) ==
    /\ published < max
    /\ published' = published + 1
    /\ inbox' = [p \in Procs |->
                    IF p \in subs THEN Append(inbox[p], cmd) ELSE inbox[p]]

\* StreamHandler.Start
ApiStart(subs, max, s) ==
    /\ dbStatus[s].status # "running"
    /\ Publish(subs, max, [action |-> "start", sid |-> s])
    /\ dbStatus' = UpdateStatus(dbStatus, s, "starting", "")
    /\ startsPublished' = [startsPublished EXCEPT ![s] = @ + 1]
    /\ UNCHANGED <<streamType, streams, handlers, loops, startsHandled, exits, lastResult>>

\* StreamHandler.Stop
ApiStop(subs, max, s) ==
    /\ Publish(subs, max, [action |-> "stop", sid |-> s])
    /\ dbStatus' = UpdateStatus(dbStatus, s, "stopped", "")
    /\ UNCHANGED <<streamType, startsPublished, streams, handlers, loops, startsHandled,
                   exits, lastResult>>

\* HandleCommand returns r: the callback goroutine is free again.
Return(p, h, r) ==
    /\ handlers' = [handlers EXCEPT ![p][h] = IdleHandler]
    /\ lastResult' = [lastResult EXCEPT ![p] = r]

\* The subscription callback takes the next message; HandleCommand "start":
\* the existence check of startStream under the lock.
StartCheck(p, h) ==
    /\ Takes(p, h)
    /\ inbox[p] # <<>>
    /\ Head(inbox[p]).action = "start"
    /\ inbox' = [inbox EXCEPT ![p] = Tail(@)]
    /\ LET s == Head(inbox[p]).sid IN
       IF Exists(streams[p], s)
       THEN /\ Return(p, h, "already running")
            /\ startsHandled' = [startsHandled EXCEPT ![p] = @ + 1]
       ELSE /\ handlers' = [handlers EXCEPT ![p][h] =
                   [pc |-> IF StreamType(s) = "youtube" THEN "resolve"
                                                         ELSE "register",
                    sid |-> s, as |-> 0]]
            /\ UNCHANGED <<startsHandled, lastResult>>
    /\ UNCHANGED <<streamType, dbStatus, published, startsPublished, streams, loops, exits>>

\* ResolveYouTubeURL in startStream succeeded.
StartResolveOk(p, h) ==
    /\ handlers[p][h].pc = "resolve"
    /\ handlers' = [handlers EXCEPT ![p][h].pc = "register"]
    /\ UNCHANGED <<streamType, dbStatus, inbox, published, startsPublished, streams, loops,
                   startsHandled, exits, lastResult>>

\* ResolveYouTubeURL in startStream failed: status error, the start fails.
StartResolveFail(p, h) ==
    /\ handlers[p][h].pc = "resolve"
    /\ Return(p, h, "resolve failed")
    /\ dbStatus' = UpdateStatus(dbStatus, handlers[p][h].sid, "error", "yt-dlp failed")
    /\ startsHandled' = [startsHandled EXCEPT ![p] = @ + 1]
    /\ UNCHANGED <<streamType, inbox, published, startsPublished, streams, loops, exits>>

\* startStream: register the entry, set status running, launch the loop.
StartRegister(p, h) ==
    /\ handlers[p][h].pc = "register"
    /\ LET s == handlers[p][h].sid IN
       /\ loops' = Append(loops, NewLoop(p, s))
       /\ streams' = [streams EXCEPT ![p][s] = Len(loops) + 1]
       /\ dbStatus' = UpdateStatus(dbStatus, s, "running", "")
    /\ Return(p, h, "ok")
    /\ startsHandled' = [startsHandled EXCEPT ![p] = @ + 1]
    /\ UNCHANGED <<streamType, inbox, published, startsPublished, exits>>

\* HandleCommand "stop": stopStream reads the entry under the read lock.
StopLookup(p, h) ==
    /\ Takes(p, h)
    /\ inbox[p] # <<>>
    /\ Head(inbox[p]).action = "stop"
    /\ inbox' = [inbox EXCEPT ![p] = Tail(@)]
    /\ LET s == Head(inbox[p]).sid IN
       IF Exists(streams[p], s)
       THEN /\ handlers' = [handlers EXCEPT ![p][h] =
                   [pc |-> "stopExt", sid |-> s, as |-> streams[p][s]]]
            /\ UNCHANGED lastResult
       ELSE Return(p, h, "ok")
    /\ UNCHANGED <<streamType, dbStatus, published, startsPublished, streams, loops,
                   startsHandled, exits>>

\* stopStream: as.extractor.Stop()
StopExtractor(p, h) ==
    /\ handlers[p][h].pc = "stopExt"
    /\ loops' = KillExtractor(loops, handlers[p][h].as)
    /\ handlers' = [handlers EXCEPT ![p][h].pc = "stopCancel"]
    /\ UNCHANGED <<streamType, dbStatus, inbox, published, startsPublished, streams,
                   startsHandled, exits, lastResult>>

\* stopStream: as.cancel(); return nil
StopCancel(p, h) ==
    /\ handlers[p][h].pc = "stopCancel"
    /\ loops' = CancelScope(loops, handlers[p][h].as)
    /\ Return(p, h, "ok")
    /\ UNCHANGED <<streamType, dbStatus, inbox, published, startsPublished, streams,
                   startsHandled, exits>>

\* for attempt := ...; attempt++ : the next attempt, or retries exhausted.
NextAttempt(l) ==
    IF loops[l].attempt + 1 > MaxRetries
    THEN /\ dbStatus' = UpdateStatus(dbStatus, loops[l].sid, "error",
                                     "stream failed after retries")
         /\ loops' = [loops EXCEPT ![l].attempt = @ + 1,
                                   ![l].lastStatus = "error",
                                   ![l].lastMsg = "stream failed after retries",
                                   ![l].pc = "exit"]
    ELSE /\ loops' = [loops EXCEPT ![l].attempt = @ + 1, ![l].pc = "backoff"]
         /\ UNCHANGED dbStatus

\* The goroutine starts: extractor.StartExtraction(...) of the first attempt.
ExtractStart(l) ==
    /\ loops[l].pc = "launched"
    /\ loops' = [loops EXCEPT ![l].pc = "running", ![l].invocations = @ + 1]
    /\ UNCHANGED <<streamType, dbStatus, inbox, published, startsPublished, streams, handlers,
                   startsHandled, exits, lastResult>>

\* StartExtraction returned (nil on a clean end, an error otherwise) and the
\* loop tests err == nil || streamCtx.Err() != nil.
ExtractEnd(l, out) ==
    /\ loops[l].pc = "running"
    /\ IF out = "eof" \/ loops[l].cancelled
       THEN /\ dbStatus' = UpdateStatus(dbStatus, loops[l].sid, "stopped", "")
            /\ loops' = [loops EXCEPT ![l].lastStatus = "stopped",
                                      ![l].lastMsg = "", ![l].lastErr = out,
                                      ![l].pc = "exit"]
       ELSE NextAttempt(l)
    /\ UNCHANGED <<streamType, inbox, published, startsPublished, streams, handlers,
                   startsHandled, exits, lastResult>>

\* select: case <-streamCtx.Done()
BackoffDone(l) ==
    /\ loops[l].pc = "backoff"
    /\ loops[l].cancelled
    /\ LoopWrites(l, "stopped", "", "exit")
    /\ UNCHANGED <<streamType, inbox, published, startsPublished, streams, handlers,
                   startsHandled, exits, lastResult>>

\* select: case <-time.After(delay), the timer firing before any cancellation
\* (the timer is created on entry to the select, so a scope cancelled by then
\* is the case that is ready); then re-resolve (youtube), or a fresh extractor
\* and its StartExtraction.
BackoffTimer(l) ==
    /\ loops[l].pc = "backoff"
    /\ ~loops[l].cancelled
    /\ loops' = [loops EXCEPT
           ![l].waits = Append(@, Delay(loops[l].attempt)),
           ![l].pc = IF StreamType(loops[l].sid) = "youtube" THEN "resolve"
                                                            ELSE "running",
           ![l].invocations = IF StreamType(loops[l].sid) = "youtube"
                              THEN @ ELSE @ + 1]
    /\ UNCHANGED <<streamType, dbStatus, inbox, published, startsPublished, streams, handlers,
                   startsHandled, exits, lastResult>>

\* ResolveYouTubeURL(streamCtx, ...) succeeded: fresh extractor and its
\* StartExtraction.
ResolveOk(l) ==
    /\ loops[l].pc = "resolve"
    /\ ~loops[l].cancelled
    /\ loops' = [loops EXCEPT ![l].pc = "running", ![l].invocations = @ + 1]
    /\ UNCHANGED <<streamType, dbStatus, inbox, published, startsPublished, streams, handlers,
                   startsHandled, exits, lastResult>>

\* ResolveYouTubeURL(streamCtx, ...) failed (also when the scope is cancelled):
\* continue.
ResolveFail(l) ==
    /\ loops[l].pc = "resolve"
    /\ NextAttempt(l)
    /\ UNCHANGED <<streamType, inbox, published, startsPublished, streams, handlers,
                   startsHandled, exits, lastResult>>

\* The deferred function of the loop goroutine.
LoopExit(l) ==
    /\ loops[l].pc = "exit"
    /\ streams' = [streams EXCEPT ![loops[l].proc] = DeleteEntry(@, loops[l].sid)]
    /\ exits' = [exits EXCEPT ![loops[l].proc] = @ + 1]
    /\ loops' = [loops EXCEPT ![l] = DoneLoop(loops[l].proc, loops[l].sid)]
    /\ UNCHANGED <<streamType, dbStatus, inbox, published, startsPublished, handlers,
                   startsHandled, lastResult>>

\* ------------------------------------------------------------------------
\* Frame path
\* ------------------------------------------------------------------------

\* frameID := uuid.New(): keys are drawn in no particular order.
FrameKeys == 1..MaxFrames

\* failed: a callback of this StartExtraction call has returned an error.
IdleCallback == [pc |-> "idle", key |-> 0, failed |-> FALSE]

IdleWorker ==
    [pc |-> "idle", key |-> 0, deliveries |-> 0, valid |-> TRUE, err |-> FALSE]

FrameInit ==
    /\ blobs = {}
    /\ usedKeys = {}
    /\ stored = {}
    /\ cb = IdleCallback
    /\ framesQ = {}
    /\ inflight = IdleWorker
    /\ eventsQ = <<>>
    /\ eventRows = <<>>
    /\ acks = {}
    /\ naks = {}
    /\ lostEvents = {}
    /\ garbage = 0

\* Faulty variant of PutFailed: the callback goes on to publish the task.
PutFailedGoesOn(c, k) == [c EXCEPT !.pc = "publish", !.key = k, !.failed = TRUE]

\* if err := m.minio.PutObject(...); err != nil { return fmt.Errorf(...) }
PutFailed(c, k) == [c EXCEPT !.failed = TRUE]

\* readJPEGFrames hands the next frame to the callback whatever the earlier
\* callbacks returned (their error is only logged). The callback:
\* m.minio.PutObject(key); on error it returns the error.
CallbackPut(k, ok) ==
    /\ cb.pc = "idle"
    /\ k \notin usedKeys
    /\ usedKeys' = usedKeys \cup {k}
    /\ IF ok
       THEN /\ blobs' = blobs \cup {k}
            /\ stored' = stored \cup {k}
            /\ cb' = [cb EXCEPT !.pc = "publish", !.key = k]
       ELSE /\ cb' = PutFailed(cb, k)
            /\ UNCHANGED <<blobs, stored>>
    /\ UNCHANGED <<framesQ, inflight, eventsQ, eventRows, acks, naks, lostEvents, garbage>>

\* The per-frame callback: m.producer.PublishFrame(task with FrameRef = key);
\* on error it returns the error.
CallbackPublish(ok) ==
    /\ cb.pc = "publish"
    /\ framesQ' = IF ok THEN framesQ \cup {[key |-> cb.key, deliveries |-> 0,
                                            valid |-> TRUE]}
                        ELSE framesQ
    /\ cb' = [pc |-> "idle", key |-> 0, failed |-> cb.failed \/ ~ok]
    /\ UNCHANGED <<blobs, usedKeys, stored, inflight, eventsQ, eventRows, acks, naks,
                   lostEvents, garbage>>

\* A message on the frames subject whose payload is not a FrameTask (published
\* by anything other than the ingestor); key 0 stands for "no frame".
PublishGarbage ==
    /\ garbage < MaxGarbage
    /\ garbage' = garbage + 1
    /\ framesQ' = framesQ \cup {[key |-> 0 - (garbage + 1), deliveries |-> 0,
                                 valid |-> FALSE]}
    /\ UNCHANGED <<blobs, usedKeys, stored, cb, inflight, eventsQ, eventRows, acks, naks,
                   lostEvents>>

\* keys[:len(keys)-retention] of the listing, which the store returns sorted.
ToDelete(keys, retention) ==
    {k \in keys : Cardinality({j \in keys : j >= k}) > retention}

\* cleanupFrames, for the stream's prefix.
CleanupFrames ==
    /\ Cardinality(blobs) > Retention
    /\ blobs' = blobs \ ToDelete(blobs, Retention)
    /\ UNCHANGED <<usedKeys, stored, cb, framesQ, inflight, eventsQ, eventRows, acks, naks,
                   lostEvents, garbage>>

\* A worker loop receives a frame task (a delivery of the message).
WorkerFetch(task) ==
    /\ inflight.pc = "idle"
    /\ task \in framesQ
    /\ framesQ' = framesQ \ {task}
    /\ inflight' = [pc |-> "handle", key |-> task.key,
                    deliveries |-> task.deliveries + 1, valid |-> task.valid,
                    err |-> FALSE]
    /\ UNCHANGED <<blobs, usedKeys, stored, cb, eventsQ, eventRows, acks, naks, lostEvents,
                   garbage>>

\* The handler: json.Unmarshal fails; "return nil // Don't retry".
WorkerParseFail ==
    /\ inflight.pc = "handle"
    /\ ~inflight.valid
    /\ inflight' = [inflight EXCEPT !.pc = "returned", !.err = FALSE]
    /\ UNCHANGED <<blobs, usedKeys, stored, cb, framesQ, eventsQ, eventRows, acks, naks,
                   lostEvents, garbage>>

\* Faulty variant of Nak: a nacked message is always redelivered.
NakAlways(q, task) ==
    q \cup {[key |-> task.key, deliveries |-> task.deliveries, valid |-> task.valid]}

\* msg.Nak(): redelivered unless MaxDeliver deliveries were made.
Nak(q, task) ==
    IF task.deliveries < MaxDeliver
    THEN q \cup {[key |-> task.key, deliveries |-> task.deliveries,
                  valid |-> task.valid]}
    ELSE q

\* ProcessFrame steps 1 to 3: GetObject, decode, detect; ok is false when one
\* of them fails, and then ProcessFrame returns the error.
WorkerLoad(ok) ==
    /\ inflight.pc = "handle"
    /\ inflight.valid
    /\ ok => inflight.key \in blobs
    /\ inflight' = IF ok THEN [inflight EXCEPT !.pc = "publish"]
                         ELSE [inflight EXCEPT !.pc = "returned", !.err = TRUE]
    /\ UNCHANGED <<blobs, usedKeys, stored, cb, framesQ, eventsQ, eventRows, acks, naks,
                   lostEvents, garbage>>

\* DetectionResult{..., FrameKey: task.FrameRef}
DetectionResult(task) == [FrameKey |-> task.key]

\* ProcessFrame step 10 for the n recognitions of the frame: PublishEvent,
\* whose error is only logged; ProcessFrame returns nil.
WorkerPublish(n, ok) ==
    /\ inflight.pc = "publish"
    /\ eventsQ' = IF ok THEN eventsQ \o [i \in 1..n |-> DetectionResult(inflight)]
                        ELSE eventsQ
    /\ lostEvents' = IF ok \/ n = 0 THEN lostEvents
                     ELSE lostEvents \cup {<<inflight.key, inflight.deliveries>>}
    /\ inflight' = [inflight EXCEPT !.pc = "returned", !.err = FALSE]
    /\ UNCHANGED <<blobs, usedKeys, stored, cb, framesQ, eventRows, acks, naks, garbage>>

\* Faulty variant of Answer: the message is acked whatever the handler returned.
AnswerAck(err) == "ack"

\* if err := handler(ctx, msg); err != nil { msg.Nak() } else { msg.Ack() }
Answer(err) == IF err THEN "nak" ELSE "ack"

\* The worker goroutine of ConsumeFrames answers the delivery.
WorkerAnswer ==
    /\ inflight.pc = "returned"
    /\ IF Answer(inflight.err) = "nak"
       THEN /\ naks' = naks \cup {<<inflight.key, inflight.deliveries>>}
            /\ framesQ' = Nak(framesQ, inflight)
            /\ UNCHANGED acks
       ELSE /\ acks' = acks \cup {<<inflight.key, inflight.deliveries>>}
            /\ UNCHANGED <<naks, framesQ>>
    /\ inflight' = IdleWorker
    /\ UNCHANGED <<blobs, usedKeys, stored, cb, eventsQ, eventRows, lostEvents, garbage>>

\* The row the distributor inserts: models.Event is built without FrameKey and
\* the INSERT leaves frame_key at its default; refKey is the key the event
\* message carried and refBlob whether that blob is in the store at the write.
EventRow(msg, store) ==
    [frame_key |-> 0, refKey |-> msg.FrameKey, refBlob |-> msg.FrameKey \in store]

\* The ConsumeEvents handler of the API: db.CreateEvent, broadcast, ack.
DistributorHandle ==
    /\ eventsQ # <<>>
    /\ eventRows' = Append(eventRows, EventRow(Head(eventsQ), blobs))
    /\ eventsQ' = Tail(eventsQ)
    /\ UNCHANGED <<blobs, usedKeys, stored, cb, framesQ, inflight, acks, naks, lostEvents,
                   garbage>>

\* ------------------------------------------------------------------------
\* Tracker and its lazy creation in the worker
\* ------------------------------------------------------------------------

Workers == {1, 2}

\* Face boxes of the model: B1 and B2 overlap (IoU 2/3), B3 is apart.
B1 == <<0, 0, 10, 10>>

B2 == <<2, 0, 12, 10>>

B3 == <<20, 20, 30, 30>>

Det(b, c) == [BBox |-> b, Confidence |-> c]

\* Detection lists a frame may yield (ProcessFrame returns before the tracker
\* when the list is empty).
DetLists ==
    {<<Det(B1, 9)>>, <<Det(B2, 8)>>, <<Det(B3, 7)>>, <<Det(B1, 9), Det(B3, 7)>>}

Max(a, b) == IF a >= b THEN a ELSE b

Min(a, b) == IF a <= b THEN a ELSE b

\* iou(a, b) as the fraction <<intersection, union>>; 0 when union <= 0.
Iou(a, b) ==
    LET x1 == Max(a[1], b[1])
        y1 == Max(a[2], b[2])
        x2 == Min(a[3], b[3])
        y2 == Min(a[4], b[4])
        intersection == Max(0, x2 - x1) * Max(0, y2 - y1)
        areaA == (a[3] - a[1]) * (a[4] - a[2])
        areaB == (b[3] - b[1]) * (b[4] - b[2])
        union == areaA + areaB - intersection
    IN IF union <= 0 THEN <<0, 1>> ELSE <<intersection, union>>

\* x > y for two such fractions.
Greater(x, y) == x[1] * y[2] > y[1] * x[2]

\* NewTracker(streamID, maxAge, minHits)
NewTracker(s) == [streamID |-> s, tracks |-> <<>>, nextID |-> 0]

\* The orders in which ranging over the tracks map may visit its keys.
Orders(S) ==
    {f \in [1..Cardinality(S) -> S] : \A i, j \in DOMAIN f : f[i] = f[j] => i = j}

\* The inner loop of Update over trackList from position i: the track of the
\* greatest IoU above best, the first such one in the order of trackList.
RECURSIVE BestTrack(_, _, _, _, _, _, _)
BestTrack(tracks, det, order, matched, i, bestIoU, bestTrack) ==
    IF i > Len(order) THEN bestTrack
    ELSE LET tr == tracks[order[i]]
             iouVal == Iou(det.BBox, tr.BBox)
         IN IF tr.ID \notin matched /\ Greater(iouVal, bestIoU)
            THEN BestTrack(tracks, det, order, matched, i + 1, iouVal, tr.ID)
            ELSE BestTrack(tracks, det, order, matched, i + 1, bestIoU, bestTrack)

\* "Match detections to tracks by IoU", from detection di on.
RECURSIVE MatchDets(_, _, _, _, _, _)
MatchDets(tracks, dets, order, di, matched, detMatched) ==
    IF di > Len(dets)
    THEN [tracks |-> tracks, detMatched |-> detMatched]
    ELSE LET bestTrack == BestTrack(tracks, dets[di], order, matched, 1, <<3, 10>>, 0)
         IN IF bestTrack # 0
            THEN MatchDets(
                     [tracks EXCEPT ![bestTrack].BBox = dets[di].BBox,
                                    ![bestTrack].Confidence = dets[di].Confidence,
                                    ![bestTrack].Hits = @ + 1,
                                    ![bestTrack].TimeSinceUpdate = 0],
                     dets, order, di + 1, matched \cup {bestTrack},
                     detMatched \cup {di})
            ELSE MatchDets(tracks, dets, order, di + 1, matched, detMatched)

\* "Create new tracks for unmatched detections", from detection di on.
RECURSIVE CreateTracks(_, _, _, _, _)
CreateTracks(tracks, nextID, dets, detMatched, di) ==
    IF di > Len(dets) THEN [tracks |-> tracks, nextID |-> nextID]
    ELSE IF di \in detMatched
         THEN CreateTracks(tracks, nextID, dets, detMatched, di + 1)
         ELSE LET n == nextID + 1
                  tr == [ID |-> n, BBox |-> dets[di].BBox,
                         Confidence |-> dets[di].Confidence,
                         Hits |-> 1, TimeSinceUpdate |-> 0]
              IN CreateTracks([k \in DOMAIN tracks \cup {n} |->
                                  IF k = n THEN tr ELSE tracks[k]],
                              n, dets, detMatched, di + 1)

\* Faulty variant of Evict: a track is kept one frame too long.
EvictLate(tracks, maxAge) ==
    [k \in {j \in DOMAIN tracks : tracks[j].TimeSinceUpdate <= maxAge + 1} |-> tracks[k]]

\* "Remove stale tracks"
Evict(tracks, maxAge) ==
    [k \in {j \in DOMAIN tracks : tracks[j].TimeSinceUpdate <= maxAge} |-> tracks[k]]

\* "Match detections to tracks by IoU", from detection di on: bestTrack of
\* each detection in turn (0 for "").
RECURSIVE Associations(_, _, _, _, _)
Associations(tracks, dets, order, di, matched) ==
    IF di > Len(dets) THEN <<>>
    ELSE LET bestTrack == BestTrack(tracks, dets[di], order, matched, 1, <<3, 10>>, 0)
         IN <<bestTrack>> \o
            Associations(tracks, dets, order, di + 1,
                         IF bestTrack # 0 THEN matched \cup {bestTrack} ELSE matched)

\* The updates slice Update returns: the matched tracks in the order of their
\* detections, then the tracks created.
Updates(assoc, oldNextID, newNextID) ==
    LET hit == SelectSeq(assoc, LAMBDA k : k # 0)
    IN [i \in 1..Len(hit) |-> [Track |-> hit[i], IsNew |-> FALSE]] \o
       [i \in 1..(newNextID - oldNextID) |-> [Track |-> oldNextID + i, IsNew |-> TRUE]]

\* Tracker.Update under t.mu, trackList being in the given order.
Update(t, dets, order) ==
    LET aged == [k \in DOMAIN t.tracks |->
                    [t.tracks[k] EXCEPT !.TimeSinceUpdate = @ + 1]]
        m == MatchDets(aged, dets, order, 1, {}, {})
        c == CreateTracks(m.tracks, t.nextID, dets, m.detMatched, 1)
    IN [t EXCEPT !.tracks = Evict(c.tracks, TrackMaxAge), !.nextID = c.nextID]

IdleLoop == [pc |-> "idle", sid |-> "none", dets |-> <<>>, t |-> 0]

TrackerInit ==
    /\ trackers = [s \in StreamIds |-> 0]
    /\ trackerObjs = <<>>
    /\ workers = [w \in Workers |-> IdleLoop]
    /\ minted = {}
    /\ tasksTaken = 0
    /\ crashed = FALSE

\* A worker loop takes a frame task of stream s; the frame yields dets.
WorkerTake(w, s, dets) ==
    /\ ~crashed
    /\ workers[w].pc = "idle"
    /\ tasksTaken < MaxTasks
    /\ tasksTaken' = tasksTaken + 1
    /\ workers' = [workers EXCEPT ![w] =
           [pc |-> "getTracker", sid |-> s, dets |-> dets, t |-> 0]]
    /\ UNCHANGED <<trackers, trackerObjs, minted, crashed>>

\* getTracker: if t, ok := p.trackers[streamID]; ok { return t }
GetTrackerLookup(w) ==
    /\ ~crashed
    /\ workers[w].pc = "getTracker"
    /\ workers' = [workers EXCEPT
           ![w].pc = IF trackers[workers[w].sid] # 0 THEN "update" ELSE "create",
           ![w].t = trackers[workers[w].sid]]
    /\ UNCHANGED <<trackers, trackerObjs, minted, tasksTaken, crashed>>

\* getTracker: t := NewTracker(...); p.trackers[streamID] = t
GetTrackerCreate(w) ==
    /\ ~crashed
    /\ workers[w].pc = "create"
    /\ trackerObjs' = Append(trackerObjs, NewTracker(workers[w].sid))
    /\ trackers' = [trackers EXCEPT ![workers[w].sid] = Len(trackerObjs) + 1]
    /\ workers' = [workers EXCEPT ![w].pc = "update", ![w].t = Len(trackerObjs) + 1]
    /\ UNCHANGED <<minted, tasksTaken, crashed>>

\* Two loops writing the unguarded map at once: the runtime may detect it and
\* abort the process ("concurrent map writes").
MapWriteAbort ==
    /\ ~crashed
    /\ \E w1, w2 \in Workers :
           w1 # w2 /\ workers[w1].pc = "create" /\ workers[w2].pc = "create"
    /\ crashed' = TRUE
    /\ UNCHANGED <<trackers, trackerObjs, workers, minted, tasksTaken>>

\* tracker.Update(detections), trackList in any order the map may yield; the
\* rest of ProcessFrame leaves the track set and nextID alone.
TrackerUpdate(w) ==
    /\ ~crashed
    /\ workers[w].pc = "update"
    /\ \E order \in Orders(DOMAIN trackerObjs[workers[w].t].tracks) :
           LET t == workers[w].t
               old == trackerObjs[t]
               new == Update(old, workers[w].dets, order)
           IN /\ trackerObjs' = [trackerObjs EXCEPT ![t] = new]
              /\ minted' = minted \cup
                     {[stream |-> old.streamID, n |-> n, obj |-> t] :
                          n \in (old.nextID + 1)..new.nextID}
    /\ workers' = [workers EXCEPT ![w] = IdleLoop]
    /\ UNCHANGED <<trackers, tasksTaken, crashed>>

\* ------------------------------------------------------------------------
\* JPEG demultiplexer
\* ------------------------------------------------------------------------

\* Byte values of the model: a data byte and the three marker bytes.
Bytes == {0, FF, D8, D9}

\* Sequences over S of length at most n.
SeqsUpTo(S, n) == UNION {[1..k -> S] : k \in 0..n}

\* Position of an FF D9 pair in a byte string.
EndMarkerAt(j, i) == i < Len(j) /\ j[i] = FF /\ j[i + 1] = D9

\* A JPEG as the input contract has it: begins FF D8, ends FF D9, no earlier
\* FF D9.
Jpegs ==
    {j \in {<<FF, D8>> \o body \o <<FF, D9>> : body \in SeqsUpTo(Bytes, MaxBody)} :
        \A i \in 1..(Len(j) - 2) : ~EndMarkerAt(j, i)}

RECURSIVE Concat(_)
Concat(ss) == IF ss = <<>> THEN <<>> ELSE Head(ss) \o Concat(Tail(ss))

\* findJPEGStart: [err, rest of the reader].
RECURSIVE FindJPEGStart(_)
FindJPEGStart(r) ==
    IF r = <<>> THEN [err |-> "EOF", rest |-> <<>>]
    ELSE IF Head(r) # FF THEN FindJPEGStart(Tail(r))
    ELSE IF Tail(r) = <<>> THEN [err |-> "EOF", rest |-> <<>>]
    ELSE IF r[2] = D8 THEN [err |-> "nil", rest |-> Tail(Tail(r))]
    ELSE FindJPEGStart(Tail(Tail(r)))

\* readUntilJPEGEnd, data being the bytes gathered so far: [err, data, rest].
RECURSIVE ReadUntilJPEGEnd(_, _)
ReadUntilJPEGEnd(r, data) ==
    IF r = <<>> THEN [err |-> "EOF", data |-> <<>>, rest |-> <<>>]
    ELSE IF Head(r) = FF
    THEN IF Tail(r) = <<>> THEN [err |-> "EOF", data |-> <<>>, rest |-> <<>>]
         ELSE LET d == data \o <<FF, r[2]>> IN
              IF r[2] = D9 THEN [err |-> "nil", data |-> d, rest |-> Tail(Tail(r))]
              ELSE IF Len(d) > MaxFrameBytes
              THEN [err |-> "too large", data |-> <<>>, rest |-> Tail(Tail(r))]
              ELSE ReadUntilJPEGEnd(Tail(Tail(r)), d)
    ELSE LET d == Append(data, Head(r)) IN
         IF Len(d) > MaxFrameBytes
         THEN [err |-> "too large", data |-> <<>>, rest |-> Tail(r)]
         ELSE ReadUntilJPEGEnd(Tail(r), d)

\* Faulty variant of ReturnValue: an EOF is always surfaced.
SurfaceEOF(stage, err, n) == IF err = "EOF" THEN "EOF" ELSE err

\* What readJPEGFrames returns when findJPEGStart (stage "find", start-up
\* retries used up) or readUntilJPEGEnd (stage "read") fails with err, n
\* frames having been read.
ReturnValue(stage, err, n) ==
    IF err = "EOF"
    THEN IF n > 0 THEN "nil"
         ELSE IF stage = "find" THEN "no frames" ELSE "EOF"
    ELSE err

\* No readJPEGFrames call is under way.
DemuxIdle ==
    /\ jpegs = <<>>
    /\ cut = 0
    /\ rd = <<>>
    /\ emitted = <<>>
    /\ framesRead = 0
    /\ startupRetries = 0
    /\ dmxResult = "nil"
    /\ framesLog = <<>>

\* readJPEGFrames is called on a pipe that will deliver the concatenation of
\* some JPEGs, short of its last cut bytes.
DemuxInit ==
    /\ jpegs \in SeqsUpTo(Jpegs, MaxJpegs)
    /\ cut \in 0..MaxCut
    /\ cut <= Len(Concat(jpegs))
    /\ rd = SubSeq(Concat(jpegs), 1, Len(Concat(jpegs)) - cut)
    /\ emitted = <<>>
    /\ framesRead = 0
    /\ startupRetries = 0
    /\ dmxResult = "running"
    /\ framesLog = <<>>

\* if ctx.Err() != nil { return ctx.Err() }
DemuxCancelled ==
    /\ dmxResult = "running"
    /\ dmxResult' = "ctx"
    /\ UNCHANGED <<jpegs, cut, rd, emitted, framesRead, startupRetries, framesLog>>

\* Faulty variant of JsPublish: the newest message goes to the front.
JsPublishFront(log, m) == <<m>> \o log

\* js.Publish(ctx, subject, payload): the message is stored after those
\* published before it, and the call returns once the server has answered.
JsPublish(log, m) == Append(log, m)

\* One iteration that finds a frame and hands it to the callback, which runs
\* to its end before the next iteration; ok tells whether its PutObject and
\* PublishFrame both succeed (an error is logged and the loop goes on).
DemuxFrame(ok) ==
    /\ dmxResult = "running"
    /\ LET f == FindJPEGStart(rd)
           g == ReadUntilJPEGEnd(f.rest, <<FF, D8>>)
       IN /\ f.err = "nil"
          /\ g.err = "nil"
          /\ emitted' = Append(emitted, g.data)
          /\ framesRead' = framesRead + 1
          /\ rd' = g.rest
          /\ framesLog' = IF ok THEN JsPublish(framesLog, framesRead + 1)
                           ELSE framesLog
    /\ UNCHANGED <<jpegs, cut, startupRetries, dmxResult>>

\* Faulty variant of MayRetry: the first EOF is final.
NoRetry(n, retries) == FALSE

\* "if framesRead == 0 && startupRetries < maxStartupRetries"
MayRetry(n, retries) == n = 0 /\ retries < MaxStartupRetries

\* EOF before the first frame: sleep 100 ms and try again.
DemuxStartupRetry ==
    /\ dmxResult = "running"
    /\ FindJPEGStart(rd).err = "EOF"
    /\ MayRetry(framesRead, startupRetries)
    /\ startupRetries' = startupRetries + 1
    /\ rd' = FindJPEGStart(rd).rest
    /\ UNCHANGED <<jpegs, cut, emitted, framesRead, dmxResult, framesLog>>

\* An iteration that ends readJPEGFrames.
DemuxReturn ==
    /\ dmxResult = "running"
    /\ LET f == FindJPEGStart(rd)
           g == ReadUntilJPEGEnd(f.rest, <<FF, D8>>)
       IN IF f.err # "nil"
          THEN /\ ~(f.err = "EOF" /\ MayRetry(framesRead, startupRetries))
               /\ dmxResult' = ReturnValue("find", f.err, framesRead)
               /\ rd' = f.rest
          ELSE /\ g.err # "nil"
               /\ dmxResult' = ReturnValue("read", g.err, framesRead)
               /\ rd' = g.rest
    /\ UNCHANGED <<jpegs, cut, emitted, framesRead, startupRetries, framesLog>>

\* ------------------------------------------------------------------------
\* WebSocket hub
\* ------------------------------------------------------------------------

\* Client objects (one per upgraded connection).
Clients == {1, 2}

\* Stream ids of the broadcast events.
EventStreams == {"s1", "s2"}

\* stream_id query parameter of a connection ("" = no filter); "S1" spells the
\* id of s1 in upper case, which uuid.UUID.String() never produces.
Filters == {"", "s1", "S1"}

\* No message (the hub is between two broadcasts).
NoEvent == [stream |-> "", seq |-> 0]

NewClient ==
    [phase |-> "new", filter |-> "", send |-> <<>>, closes |-> 0,
     rp |-> "none", wp |-> "none", slow |-> FALSE, got |-> <<>>]

HubSelect ==
    [pc |-> "select", msg |-> NoEvent, toVisit |-> {}, start |-> {}, dropped |-> {},
     delivered |-> {}]

HubInit ==
    /\ hubClients = {}
    /\ cl = [c \in Clients |-> NewClient]
    /\ hub = HubSelect
    /\ bcast = <<>>
    /\ bcastCount = 0

\* HandleWS: the connection is upgraded, the Client built, and the goroutine
\* waits in h.register <- client.
Connect(c, f) ==
    /\ cl[c].phase = "new"
    /\ cl' = [cl EXCEPT ![c].phase = "registering", ![c].filter = f]
    /\ UNCHANGED <<hubClients, hub, bcast, bcastCount>>

\* Run: case client := <-h.register; HandleWS then starts the two pumps.
HubRegister(c) ==
    /\ hub.pc = "select"
    /\ cl[c].phase = "registering"
    /\ hubClients' = hubClients \cup {c}
    /\ cl' = [cl EXCEPT ![c].phase = "live", ![c].rp = "reading", ![c].wp = "running"]
    /\ UNCHANGED <<hub, bcast, bcastCount>>

\* readPump: ReadMessage fails (the peer went away or the connection was
\* closed); the deferred function waits in h.unregister <- c.
ReadFail(c) ==
    /\ cl[c].rp = "reading"
    /\ cl' = [cl EXCEPT ![c].rp = "unregister"]
    /\ UNCHANGED <<hubClients, hub, bcast, bcastCount>>

\* Faulty variant of Registered: the unregister case does not look the
\* client up.
AlwaysRegistered(clients, c) == TRUE

\* _, ok := h.clients[client]
Registered(clients, c) == c \in clients

\* Faulty variant of DeleteClient: the client stays in the set.
KeepClient(clients, c) == clients

\* delete(h.clients, client)
DeleteClient(clients, c) == clients \ {c}

\* Run: case client := <-h.unregister.
HubUnregister(c) ==
    /\ hub.pc = "select"
    /\ cl[c].rp = "unregister"
    /\ IF Registered(hubClients, c)
       THEN /\ hubClients' = DeleteClient(hubClients, c)
            /\ cl' = [cl EXCEPT ![c].rp = "done", ![c].closes = @ + 1]
       ELSE /\ cl' = [cl EXCEPT ![c].rp = "done"]
            /\ UNCHANGED hubClients
    /\ UNCHANGED <<hub, bcast, bcastCount>>

\* writePump: for msg := range c.send { WriteMessage }; a write error ends it.
WritePumpSend(c, ok) ==
    /\ cl[c].wp = "running"
    /\ cl[c].send # <<>>
    /\ cl' = [cl EXCEPT ![c].send = Tail(@),
                        ![c].wp = IF ok THEN "running" ELSE "done"]
    /\ UNCHANGED <<hubClients, hub, bcast, bcastCount>>

\* writePump: the range ends once c.send is closed and drained.
WritePumpEnd(c) ==
    /\ cl[c].wp = "running"
    /\ cl[c].send = <<>>
    /\ cl[c].closes > 0
    /\ cl' = [cl EXCEPT ![c].wp = "done"]
    /\ UNCHANGED <<hubClients, hub, bcast, bcastCount>>

\* Faulty variant of ChanSend: the channel hands out the newest value first.
ChanPush(q, m) == <<m>> \o q

\* ch <- m on a buffered channel: values are received in the order sent.
ChanSend(q, m) == Append(q, m)

\* BroadcastEvent: h.broadcast <- data (blocks while the channel is full); the
\* event of stream s is the seq-th the events consumer passes in.
BroadcastEvent(s) ==
    /\ bcastCount < MaxBroadcasts
    /\ Len(bcast) < BroadcastCap
    /\ bcast' = ChanSend(bcast, [stream |-> s, seq |-> bcastCount + 1])
    /\ bcastCount' = bcastCount + 1
    /\ UNCHANGED <<hubClients, cl, hub>>

\* Run: case message := <-h.broadcast; the range over h.clients begins.
HubTakeBroadcast ==
    /\ hub.pc = "select"
    /\ bcast # <<>>
    /\ hub' = [pc |-> "broadcast", msg |-> Head(bcast), toVisit |-> hubClients,
               start |-> hubClients, dropped |-> {}, delivered |-> {}]
    /\ bcast' = Tail(bcast)
    /\ UNCHANGED <<hubClients, cl, bcastCount>>

\* Faulty variant of Matches: the stream filter is ignored.
MatchesAll(c, m) == TRUE

\* The stream filter of the broadcast loop (the event always unmarshals: it
\* was marshalled by BroadcastEvent from a WSEvent).
Matches(c, m) == cl[c].filter = "" \/ m.stream = cl[c].filter

\* Faulty variant of RestOfRange: the range over the clients is abandoned.
EndRange(toVisit, c) == {}

\* The clients the range over h.clients has yet to produce after c.
RestOfRange(toVisit, c) == toVisit \ {c}

\* One iteration of the range over h.clients, in the map's order.
BroadcastVisit(c) ==
    /\ hub.pc = "broadcast"
    /\ c \in hub.toVisit
    /\ IF ~Matches(c, hub.msg)
       THEN /\ hub' = [hub EXCEPT !.toVisit = RestOfRange(@, c)]
            /\ UNCHANGED <<hubClients, cl>>
       ELSE IF Len(cl[c].send) < SendCap
       THEN /\ cl' = [cl EXCEPT ![c].send = ChanSend(@, hub.msg),
                                 ![c].got = Append(@, hub.msg.seq)]
            /\ hub' = [hub EXCEPT !.toVisit = RestOfRange(@, c),
                                  !.delivered = @ \cup {c}]
            /\ UNCHANGED hubClients
       ELSE /\ hubClients' = DeleteClient(hubClients, c)
            /\ cl' = [cl EXCEPT ![c].closes = @ + 1, ![c].slow = TRUE]
            /\ hub' = [hub EXCEPT !.toVisit = RestOfRange(@, c),
                                  !.dropped = @ \cup {c}]
    /\ UNCHANGED <<bcast, bcastCount>>

\* The range is over; Run goes back to its select.
BroadcastDone ==
    /\ hub.pc = "broadcast"
    /\ hub.toVisit = {}
    /\ hub' = HubSelect
    /\ UNCHANGED <<hubClients, cl, bcast, bcastCount>>

\* The steps of the Run goroutine.
HubRun ==
    /\ \/ \E c \in Clients : HubRegister(c)
       \/ \E c \in Clients : HubUnregister(c)
       \/ HubTakeBroadcast
       \/ \E c \in Clients : BroadcastVisit(c)
       \/ BroadcastDone
    /\ UNCHANGED <<mgrVars, frameVars, trkVars, dmxVars, pipeVars, shutVars, lockVars, updVars, distVars>>

\* ------------------------------------------------------------------------
\* Recognition steps of the pipeline (ProcessFrame after the detector)
\* ------------------------------------------------------------------------

\* A nil *uuid.UUID / an empty collection_id.
NoCollection == ""

\* Collection bindings a stream row may have.
Collections == {NoCollection, "c1"}

\* StreamHandler.Start: cmd["collection_id"] is set when the row has a binding.
StartCommand(b) == [action |-> "start", collection_id |-> b]

\* The FrameTask the frame callback of startStream builds for command cmd:
\* StreamID, FrameID, Timestamp, FrameRef, Width, Height are set, CollectionID
\* is left at its zero value.
CallbackTask(cmd) == [CollectionID |-> NoCollection]

\* A nil []float32.
NoEmbedding == [v |-> <<>>, d2 |-> 1]

\* A zero time.Time / a track never recognised.
NoRec == [Embedding |-> NoEmbedding, LastRecognized |-> 0]

\* An empty snapshot key.
NoKey == <<>>

\* Outputs of the embedding model: the zero vector and a vector of norm > 0.
ModelOutputs == {[i \in 1..EmbDim |-> 0], [i \in 1..EmbDim |-> i + 2]}

RECURSIVE SumSq(_)
SumSq(v) == IF v = <<>> THEN 0 ELSE Head(v) * Head(v) + SumSq(Tail(v))

\* normalize(v): every component is divided by the norm when the norm is
\* positive, and v is left as it is otherwise.  The result is kept exactly, as
\* the components v[i] over the square root of d2 (float32 rounding, of the
\* order of 1e-7 per component, is left out).
Normalize(v) == [v |-> v, d2 |-> IF SumSq(v) > 0 THEN SumSq(v) ELSE 1]

\* Embedder.Extract on a successful session run.
Extract(out) == Normalize(out)

\* Faulty variant of ShouldRecognize: tracks below min-hits pass the gate.
ShouldRecognizeUnconfirmed(track, interval) ==
    IF track.Embedding = NoEmbedding THEN TRUE
    ELSE now - track.LastRecognized >= interval

\* Faulty variant of ShouldRecognize: the interval must be exceeded.
ShouldRecognizeLate(track, interval) ==
    IF track.Hits < MinHits THEN FALSE
    ELSE IF track.Embedding = NoEmbedding THEN TRUE
    ELSE now - track.LastRecognized > interval

\* Tracker.ShouldRecognize(track, interval)
ShouldRecognize(track, interval) ==
    IF track.Hits < MinHits THEN FALSE
    ELSE IF track.Embedding = NoEmbedding THEN TRUE
    ELSE now - track.LastRecognized >= interval

\* No ProcessFrame call is past its tracker update.
NoCall == [called |-> FALSE]

\* No frame has reached the tracker yet.
NoFrame == [n |-> 0, steps |-> <<>>, returned |-> ""]

PipeIdle ==
    /\ binding = NoCollection
    /\ now = 0
    /\ frameTasks = <<>>
    /\ framesDone = MaxPipeFrames
    /\ tracker = NewTracker("s1")
    /\ trackRec = <<>>
    /\ lastCall = NoCall
    /\ searches = {}
    /\ snapshots = {}
    /\ results = {}
    /\ lastFrame = NoFrame

\* The stream was created with or without a collection binding and started.
PipeInit ==
    /\ binding \in Collections
    /\ now = 0
    /\ frameTasks = <<>>
    /\ framesDone = 0
    /\ tracker = NewTracker("s1")
    /\ trackRec = <<>>
    /\ lastCall = NoCall
    /\ searches = {}
    /\ snapshots = {}
    /\ results = {}
    /\ lastFrame = NoFrame

\* A second passes.
PipeTick ==
    /\ now < MaxTime
    /\ now' = now + 1
    /\ UNCHANGED <<binding, frameTasks, framesDone, tracker, trackRec, lastCall,
                   searches, snapshots, results, lastFrame>>

\* The frame callback of the stream's extraction loop publishes a frame task.
FrameCallback ==
    /\ frameTasks = <<>>
    /\ framesDone + (IF lastCall.called THEN 1 ELSE 0) < MaxPipeFrames
    /\ frameTasks' = <<CallbackTask(StartCommand(binding))>>
    /\ UNCHANGED <<binding, now, framesDone, tracker, trackRec, lastCall,
                   searches, snapshots, results, lastFrame>>

\* Detection lists of the frames of this stream in which a face is found.
PipeDetLists == {<<Det(B1, 9)>>, <<Det(B3, 7)>>}

\* Detection lists of the frames of a stream in which two faces are found.
TwoFaceLists == {<<Det(B1, 9), Det(B3, 7)>>}

\* The Track fields ShouldRecognize reads, for track id of tracks.
TrackOf(tracks, id) ==
    LET rec == IF id \in DOMAIN trackRec THEN trackRec[id] ELSE NoRec
    IN [Hits |-> tracks[id].Hits, Embedding |-> rec.Embedding,
        LastRecognized |-> rec.LastRecognized]

\* ShouldRecognize is called for the update upd of the frame of task, the
\* updates in rest being still to come.
CallOn(task, upd, tracks, rest) ==
    LET track == TrackOf(tracks, upd.Track)
    IN [called |-> TRUE, task |-> task, id |-> upd.Track, isNew |-> upd.IsNew,
        Hits |-> track.Hits, hasEmbedding |-> track.Embedding # NoEmbedding,
        since |-> now - track.LastRecognized,
        result |-> ShouldRecognize(track, ReRecognizeInterval),
        rest |-> rest]

\* Faulty variant of NeedsProcessing: a new track waits for the gate too.
NeedsProcessingGated(needRecognition, isNew) == needRecognition

\* "if !needRecognition && !upd.IsNew { continue }"
NeedsProcessing(needRecognition, isNew) == needRecognition \/ isNew

\* ProcessFrame on the next frame task when the detector finds no face:
\* "return nil // No faces", before the tracker is touched.
ProcessFrameNoFaces ==
    /\ ~lastCall.called
    /\ frameTasks # <<>>
    /\ frameTasks' = Tail(frameTasks)
    /\ framesDone' = framesDone + 1
    /\ UNCHANGED <<binding, now, tracker, trackRec, lastCall, searches, snapshots,
                   results, lastFrame>>

\* ProcessFrame on the next frame task, whose frame yields the detections
\* dets: tracker.Update and, for the first update it returns, ShouldRecognize.
ProcessFrameTrack(dets, order) ==
    /\ ~lastCall.called
    /\ frameTasks # <<>>
    /\ frameTasks' = Tail(frameTasks)
    /\ \E new \in {Update(tracker, dets, order)} :
       \E updates \in {Updates(Associations(tracker.tracks, dets, order, 1, {}),
                               tracker.nextID, new.nextID)} :
           /\ tracker' = new
           /\ trackRec' = [k \in DOMAIN trackRec \cap DOMAIN new.tracks |-> trackRec[k]]
           /\ lastCall' = CallOn(Head(frameTasks), Head(updates), new.tracks,
                                 Tail(updates))
           /\ lastFrame' = [n |-> Len(updates), steps |-> <<>>, returned |-> ""]
    /\ UNCHANGED <<binding, now, framesDone, searches, snapshots, results>>

\* What may happen in steps 5 to 10: cropFace yields nil or Extract fails
\* (embOk false), or the model's output is out and the snapshot PutObject
\* and PublishEvent succeed or not.
Outcomes ==
    {[embOk |-> FALSE, out |-> <<>>, putOk |-> TRUE, pubOk |-> TRUE]} \cup
    [embOk : {TRUE}, out : ModelOutputs, putOk : BOOLEAN, pubOk : BOOLEAN]

\* The body of the loop over the updates for the current one (steps 5 to 10),
\* with outcome o, then ShouldRecognize for the next update or, after the
\* last one, "return nil".
ProcessFrameSteps(o) ==
    /\ lastCall.called
    /\ LET id == lastCall.id
           isNew == lastCall.isNew
           needed == NeedsProcessing(lastCall.result, isNew)
           recognized == needed /\ o.embOk
           embedding == Extract(o.out)
           snapshotKey == IF isNew /\ o.putOk THEN <<id, now>> ELSE NoKey
           step == [Track |-> id, IsNew |-> isNew, need |-> lastCall.result,
                    failed |-> needed /\ ~o.embOk, attempted |-> recognized,
                    events |-> IF recognized /\ o.pubOk THEN 1 ELSE 0]
       IN /\ trackRec' =
                 IF recognized
                 THEN [k \in DOMAIN trackRec \cup {id} |->
                          IF k = id
                          THEN [Embedding |-> embedding, LastRecognized |-> now]
                          ELSE trackRec[k]]
                 ELSE trackRec
          /\ searches' = IF recognized
                         THEN searches \cup {lastCall.task.CollectionID}
                         ELSE searches
          /\ snapshots' = IF recognized /\ isNew /\ o.putOk
                          THEN snapshots \cup {snapshotKey} ELSE snapshots
          /\ results' =
                 IF recognized /\ o.pubOk
                 THEN results \cup
                          {[TrackID |-> id, Embedding |-> embedding,
                            SnapshotKey |-> snapshotKey, first |-> isNew]}
                 ELSE results
          /\ IF lastCall.rest = <<>>
             THEN /\ lastCall' = NoCall
                  /\ framesDone' = framesDone + 1
                  /\ lastFrame' = [lastFrame EXCEPT !.steps = Append(@, step),
                                                    !.returned = "nil"]
             ELSE /\ lastCall' = CallOn(lastCall.task, Head(lastCall.rest),
                                        tracker.tracks, Tail(lastCall.rest))
                  /\ framesDone' = framesDone
                  /\ lastFrame' = [lastFrame EXCEPT !.steps = Append(@, step)]
    /\ UNCHANGED <<binding, now, frameTasks, tracker>>

\* ------------------------------------------------------------------------
\* Shutdown of the worker process (main of cmd/worker and ConsumeFrames)
\* ------------------------------------------------------------------------

\* msgCh := make(chan jetstream.Msg, workerCount*2)
MsgChCap == 2 * Cardinality(Workers)

\* The worker process is not part of the behaviour.
ShutIdle ==
    /\ mainPc = "exited"
    /\ fetchPc = "returned"
    /\ fetched = 0
    /\ msgCh = <<>>
    /\ handling = [w \in Workers |-> 0]
    /\ answered = {}

\* The worker process is up: ConsumeFrames has started the fetch loop and the
\* worker loops, main waits for a signal.
ShutInit ==
    /\ mainPc = "running"
    /\ fetchPc = "running"
    /\ fetched = 0
    /\ msgCh = <<>>
    /\ handling = [w \in Workers |-> 0]
    /\ answered = {}

\* The fetch loop: a message of a fetched batch is sent to msgCh.
FetchSend ==
    /\ mainPc # "exited"
    /\ fetchPc = "running"
    /\ fetched < MaxFetched
    /\ Len(msgCh) < MsgChCap
    /\ fetched' = fetched + 1
    /\ msgCh' = ChanSend(msgCh, fetched + 1)
    /\ UNCHANGED <<mainPc, fetchPc, handling, answered>>

\* The fetch loop sees ctx.Done(): close(msgCh); return.
FetchReturn ==
    /\ mainPc = "grace"
    /\ fetchPc = "running"
    /\ fetchPc' = "returned"
    /\ UNCHANGED <<mainPc, fetched, msgCh, handling, answered>>

\* A worker loop: for msg := range msgCh (a closed channel still yields what
\* it holds); the handler is called.
LoopReceive(w) ==
    /\ mainPc # "exited"
    /\ handling[w] = 0
    /\ msgCh # <<>>
    /\ handling' = [handling EXCEPT ![w] = Head(msgCh)]
    /\ msgCh' = Tail(msgCh)
    /\ UNCHANGED <<mainPc, fetchPc, fetched, answered>>

\* The handler returns (with an error or not) and the loop answers.
LoopAnswer(w, err) ==
    /\ mainPc # "exited"
    /\ handling[w] # 0
    /\ answered' = answered \cup {<<handling[w], Answer(err)>>}
    /\ handling' = [handling EXCEPT ![w] = 0]
    /\ UNCHANGED <<mainPc, fetchPc, fetched, msgCh>>

\* main: <-quit; cancel(); time.Sleep(2 * time.Second) begins.
MainCancel ==
    /\ mainPc = "running"
    /\ mainPc' = "grace"
    /\ UNCHANGED <<fetchPc, fetched, msgCh, handling, answered>>

\* main: the sleep is over and main returns; the process and all its
\* goroutines end, wherever they are.
MainExit ==
    /\ mainPc = "grace"
    /\ mainPc' = "exited"
    /\ UNCHANGED <<fetchPc, fetched, msgCh, handling, answered>>

\* ------------------------------------------------------------------------
\* Worker loops sharing one Tracker (ConsumeFrames, ProcessFrame, t.mu)
\* ------------------------------------------------------------------------

\* A worker loop outside ProcessFrame.
IdlePf == [pc |-> "idle", dets |-> <<>>, aged |-> {}, track |-> 0, isNew |-> FALSE]

\* No worker loop runs.
LockIdle ==
    /\ mu = 0
    /\ guarded = NewTracker("s1")
    /\ pf = [w \in Workers |-> IdlePf]
    /\ pfTaken = MaxLockFrames

\* The worker loops are started and the stream has no tracker state yet.
LockInit ==
    /\ mu = 0
    /\ guarded = NewTracker("s1")
    /\ pf = [w \in Workers |-> IdlePf]
    /\ pfTaken = 0

\* A worker loop receives a frame task of the stream from msgCh and runs
\* ProcessFrame up to tracker.Update; the frame yields the detection of dets.
PfTake(w, dets) ==
    /\ pf[w].pc = "idle"
    /\ pfTaken < MaxLockFrames
    /\ pfTaken' = pfTaken + 1
    /\ pf' = [pf EXCEPT ![w] = [IdlePf EXCEPT !.pc = "lock", !.dets = dets]]
    /\ UNCHANGED <<mu, guarded>>

\* The track of the one update Update returns: the one it matched or made.
UpdatedTrack(new) ==
    CHOOSE k \in DOMAIN new.tracks : new.tracks[k].TimeSinceUpdate = 0

\* Update: t.mu.Lock() succeeds and the body runs.
UpdateLock(w, order) ==
    /\ pf[w].pc = "lock"
    /\ mu = 0
    /\ mu' = w
    /\ \E new \in {Update(guarded, pf[w].dets, order)} :
           /\ guarded' = new
           /\ pf' = [pf EXCEPT ![w].pc = "inUpdate",
                                ![w].aged = DOMAIN guarded.tracks,
                                ![w].track = UpdatedTrack(new),
                                ![w].isNew = new.nextID > guarded.nextID]
    /\ UNCHANGED pfTaken

\* Update returns: the deferred t.mu.Unlock().
UpdateUnlock(w) ==
    /\ pf[w].pc = "inUpdate"
    /\ mu' = 0
    /\ pf' = [pf EXCEPT ![w].pc = "shouldRecognize"]
    /\ UNCHANGED <<guarded, pfTaken>>

\* tracker.ShouldRecognize(track, interval) returns need, a value that hangs
\* on the clock and on fields another loop may be writing;
\* "if !needRecognition && !upd.IsNew { continue }".
PfShouldRecognize(w, need) ==
    /\ pf[w].pc = "shouldRecognize"
    /\ pf' = [pf EXCEPT ![w] = IF need \/ pf[w].isNew
                                THEN [@ EXCEPT !.pc = "recognize"]
                                ELSE IdlePf]
    /\ UNCHANGED <<mu, guarded, pfTaken>>

\* Steps 6 to 8: the embedding, the attributes and the match are stored in
\* the track.
PfRecognize(w) ==
    /\ pf[w].pc = "recognize"
    /\ pf' = [pf EXCEPT ![w].pc = "result"]
    /\ UNCHANGED <<mu, guarded, pfTaken>>

\* Step 10: the DetectionResult is built from the track; ProcessFrame returns.
PfResult(w) ==
    /\ pf[w].pc = "result"
    /\ pf' = [pf EXCEPT ![w] = IdlePf]
    /\ UNCHANGED <<mu, guarded, pfTaken>>

\* Reads of the given fields of track k.
Reads(k, fields) == {[track |-> k, field |-> f, write |-> FALSE] : f \in fields}

\* Writes of the given fields of track k.
Writes(k, fields) == {[track |-> k, field |-> f, write |-> TRUE] : f \in fields}

\* The accesses to Track fields a worker loop makes where it stands.
Access(w) ==
    LET k == pf[w].track
    IN CASE pf[w].pc = "inUpdate" ->
                UNION {Writes(j, {"TimeSinceUpdate"}) \cup Reads(j, {"BBox"}) :
                           j \in pf[w].aged}
                \cup (IF pf[w].isNew THEN {}
                      ELSE Writes(k, {"BBox", "Confidence", "Hits", "TimeSinceUpdate"}))
         [] pf[w].pc = "shouldRecognize" ->
                Reads(k, {"Hits", "Embedding", "LastRecognized"})
         [] pf[w].pc = "recognize" ->
                Reads(k, {"BBox"}) \cup
                Writes(k, {"Embedding", "LastRecognized", "Gender", "PersonID"})
         [] pf[w].pc = "result" ->
                Reads(k, {"BBox", "Confidence", "Gender"})
         [] OTHER -> {}

\* Two accesses to the same field of the same track, one of them a write.
Conflicting(a, b) == a.track = b.track /\ a.field = b.field /\ (a.write \/ b.write)

\* ------------------------------------------------------------------------
\* Tracker.Update as a function of the tracker, the detections and the order
\* in which the tracks map is ranged over
\* ------------------------------------------------------------------------

\* A box inside B1 covering three tenths of it.
B4 == <<0, 0, 3, 10>>

\* A box halfway between B1 and B2.
B5 == <<1, 0, 11, 10>>

\* Detection lists of the frames given to Update.
UpdDetLists ==
    {<<Det(B1, 9), Det(B2, 8)>>, <<Det(B4, 7)>>, <<Det(B5, 6)>>,
     <<Det(B5, 6), Det(B1, 9)>>, <<Det(B3, 7)>>}

NoUpdateCall == [made |-> FALSE]

\* No tracker is part of the behaviour.
UpdIdle ==
    /\ tk = NewTracker("s1")
    /\ call = NoUpdateCall
    /\ calls = MaxUpdates
    /\ sinceMatch = <<>>

\* NewTracker(streamID, maxAge, minHits)
UpdInit ==
    /\ tk = NewTracker("s1")
    /\ call = NoUpdateCall
    /\ calls = 0
    /\ sinceMatch = <<>>

\* ProcessFrame on a frame in which no face is detected, or none of at least
\* min_face_size: it returns nil before the tracker is touched.
FrameNoFaces ==
    /\ calls < MaxUpdates
    /\ calls' = calls + 1
    /\ sinceMatch' = [k \in DOMAIN sinceMatch |-> sinceMatch[k] + 1]
    /\ UNCHANGED <<tk, call>>

\* ProcessFrame on a frame with the detections dets: tracker.Update(dets), the
\* tracks map being ranged over in the given order.
UpdateCall(dets, order) ==
    /\ calls < MaxUpdates
    /\ calls' = calls + 1
    /\ \E new \in {Update(tk, dets, order)} :
       \E assoc \in {Associations(tk.tracks, dets, order, 1, {})} :
           /\ tk' = new
           /\ call' = [made |-> TRUE, old |-> tk, dets |-> dets, order |-> order,
                       assoc |-> assoc,
                       updates |-> Updates(assoc, tk.nextID, new.nextID),
                       new |-> new]
           /\ sinceMatch' = [k \in DOMAIN new.tracks |->
                                IF new.tracks[k].TimeSinceUpdate = 0 THEN 0
                                ELSE sinceMatch[k] + 1]

\* ------------------------------------------------------------------------
\* Distributor: ConsumeEvents and its handler in the API
\* ------------------------------------------------------------------------

\* Detection events, numbered in the order of their publication.
EventIds == 1..MaxEvents

IdleDist == [pc |-> "idle", ev |-> 0]

\* The API does not consume.
DistIdle ==
    /\ evPublished = MaxEvents
    /\ evDeliveries = [e \in EventIds |-> MaxDeliver]
    /\ evAcked = {}
    /\ dist = IdleDist
    /\ evRows = <<>>
    /\ evCasts = <<>>

\* ConsumeEvents has created the consumer and started its fetch loop.
DistInit ==
    /\ evPublished = 0
    /\ evDeliveries = [e \in EventIds |-> 0]
    /\ evAcked = {}
    /\ dist = IdleDist
    /\ evRows = <<>>
    /\ evCasts = <<>>

\* A worker's PublishEvent stores one more detection event in EVENTS.
EventPublished ==
    /\ evPublished < MaxEvents
    /\ evPublished' = evPublished + 1
    /\ UNCHANGED <<evDeliveries, evAcked, dist, evRows, evCasts>>

\* The fetch loop hands the next message to the handler: an event not
\* delivered yet, or one delivered before whose ack the server has not
\* received within AckWait (at most MaxDeliver deliveries in all).
DistFetch(e) ==
    /\ dist.pc = "idle"
    /\ e <= evPublished
    /\ e \notin evAcked
    /\ evDeliveries[e] < MaxDeliver
    /\ evDeliveries' = [evDeliveries EXCEPT ![e] = @ + 1]
    /\ dist' = [pc |-> "handle", ev |-> e]
    /\ UNCHANGED <<evPublished, evAcked, evRows, evCasts>>

\* db.CreateEvent: INSERT of a row under a fresh uuid.
CreateEvent(rows, e) == Append(rows, e)

\* The handler: the row is inserted unless the database fails (the error is
\* only logged), the event is broadcast, nil is returned.
DistHandle(dbOk) ==
    /\ dist.pc = "handle"
    /\ evRows' = IF dbOk THEN CreateEvent(evRows, dist.ev) ELSE evRows
    /\ evCasts' = Append(evCasts, dist.ev)
    /\ dist' = [dist EXCEPT !.pc = "ack"]
    /\ UNCHANGED <<evPublished, evDeliveries, evAcked>>

\* "_ = msg.Ack()": the ack reaches the server in time or it does not.
DistAck(arrives) ==
    /\ dist.pc = "ack"
    /\ evAcked' = IF arrives THEN evAcked \cup {dist.ev} ELSE evAcked
    /\ dist' = IdleDist
    /\ UNCHANGED <<evPublished, evDeliveries, evRows, evCasts>>

\* The frame callback of loop l's extractor, called by readJPEGFrames inside
\* StartExtraction: PutObject(streamCtx, key, ...), which fails once the
\* stream's scope is cancelled.
LoopCallbackPut(l, k, ok) ==
    /\ loops[l].pc = "running"
    /\ ok => ~loops[l].cancelled
    /\ CallbackPut(k, ok)

\* The same callback: PublishFrame(streamCtx, ...), then it returns.
LoopCallbackPublish(ok) ==
    /\ \E l \in LoopIds : loops[l].pc = "running"
    /\ CallbackPublish(ok)

\* StartExtraction returns between two callbacks (readJPEGFrames calls the
\* callback synchronously).
ExtractionEnds(l, out) ==
    /\ cb.pc = "idle"
    /\ ExtractEnd(l, out)

\* ------------------------------------------------------------------------
\* Specifications
\* ------------------------------------------------------------------------

Init ==
    /\ MgrInit /\ FrameInit /\ TrackerInit /\ DemuxIdle /\ HubInit /\ PipeIdle
    /\ ShutIdle /\ LockIdle /\ UpdIdle /\ DistIdle

\* One ingestor whose HandleCommand is entered by two goroutines at once.
NextManager ==
    \/ \E s \in StreamIds : ApiStart({"p1"}, MaxCmds, s) /\ UNCHANGED <<frameVars, trkVars, dmxVars, hubVars, pipeVars, shutVars, lockVars, updVars, distVars>>
    \/ \E s \in StreamIds : ApiStop({"p1"}, MaxCmds, s) /\ UNCHANGED <<frameVars, trkVars, dmxVars, hubVars, pipeVars, shutVars, lockVars, updVars, distVars>>
    \/ \E h \in Handlers : StartCheck("p1", h) /\ UNCHANGED <<frameVars, trkVars, dmxVars, hubVars, pipeVars, shutVars, lockVars, updVars, distVars>>
    \/ \E h \in Handlers : StartResolveOk("p1", h) /\ UNCHANGED <<frameVars, trkVars, dmxVars, hubVars, pipeVars, shutVars, lockVars, updVars, distVars>>
    \/ \E h \in Handlers : StartResolveFail("p1", h) /\ UNCHANGED <<frameVars, trkVars, dmxVars, hubVars, pipeVars, shutVars, lockVars, updVars, distVars>>
    \/ \E h \in Handlers : StartRegister("p1", h) /\ UNCHANGED <<frameVars, trkVars, dmxVars, hubVars, pipeVars, shutVars, lockVars, updVars, distVars>>
    \/ \E h \in Handlers : StopLookup("p1", h) /\ UNCHANGED <<frameVars, trkVars, dmxVars, hubVars, pipeVars, shutVars, lockVars, updVars, distVars>>
    \/ \E h \in Handlers : StopExtractor("p1", h) /\ UNCHANGED <<frameVars, trkVars, dmxVars, hubVars, pipeVars, shutVars, lockVars, updVars, distVars>>
    \/ \E h \in Handlers : StopCancel("p1", h) /\ UNCHANGED <<frameVars, trkVars, dmxVars, hubVars, pipeVars, shutVars, lockVars, updVars, distVars>>
    \/ \E l \in LoopIds : ExtractStart(l) /\ UNCHANGED <<frameVars, trkVars, dmxVars, hubVars, pipeVars, shutVars, lockVars, updVars, distVars>>
    \/ \E l \in LoopIds : \E out \in {"eof", "err"} :
           ExtractEnd(l, out) /\ UNCHANGED <<frameVars, trkVars, dmxVars, hubVars, pipeVars, shutVars, lockVars, updVars, distVars>>
    \/ \E l \in LoopIds : BackoffDone(l) /\ UNCHANGED <<frameVars, trkVars, dmxVars, hubVars, pipeVars, shutVars, lockVars, updVars, distVars>>
    \/ \E l \in LoopIds : BackoffTimer(l) /\ UNCHANGED <<frameVars, trkVars, dmxVars, hubVars, pipeVars, shutVars, lockVars, updVars, distVars>>
    \/ \E l \in LoopIds : ResolveOk(l) /\ UNCHANGED <<frameVars, trkVars, dmxVars, hubVars, pipeVars, shutVars, lockVars, updVars, distVars>>
    \/ \E l \in LoopIds : ResolveFail(l) /\ UNCHANGED <<frameVars, trkVars, dmxVars, hubVars, pipeVars, shutVars, lockVars, updVars, distVars>>
    \/ \E l \in LoopIds : LoopExit(l) /\ UNCHANGED <<frameVars, trkVars, dmxVars, hubVars, pipeVars, shutVars, lockVars, updVars, distVars>>

SpecManager == Init /\ [][NextManager]_vars

\* The goroutines of the ingestor p1: the subscription's callbacks and the
\* extraction loops (an extractor that is running may also end by itself).
IngestorRun ==
    /\ \/ \E h \in Handlers : StartCheck("p1", h)
       \/ \E h \in Handlers : StartResolveOk("p1", h)
       \/ \E h \in Handlers : StartResolveFail("p1", h)
       \/ \E h \in Handlers : StartRegister("p1", h)
       \/ \E h \in Handlers : StopLookup("p1", h)
       \/ \E h \in Handlers : StopExtractor("p1", h)
       \/ \E h \in Handlers : StopCancel("p1", h)
       \/ \E l \in LoopIds : ExtractStart(l)
       \/ \E l \in LoopIds : \E out \in {"eof", "err"} : ExtractEnd(l, out)
       \/ \E l \in LoopIds : BackoffDone(l)
       \/ \E l \in LoopIds : BackoffTimer(l)
       \/ \E l \in LoopIds : ResolveOk(l)
       \/ \E l \in LoopIds : ResolveFail(l)
       \/ \E l \in LoopIds : LoopExit(l)
    /\ UNCHANGED <<frameVars, trkVars, dmxVars, hubVars, pipeVars, shutVars, lockVars, updVars, distVars>>

\* The same ingestor, alive: its goroutines are always scheduled again.
SpecManagerLive == Init /\ [][NextManager]_vars /\ WF_vars(IngestorRun)

\* One ingestor (two goroutines in HandleCommand) for an rtsp stream, with
\* the frame callbacks of its extractors.
NextExtraction ==
    \/ \E s \in StreamIds : ApiStart({"p1"}, MaxFleetCmds, s) /\ UNCHANGED <<frameVars, trkVars, dmxVars, hubVars, pipeVars, shutVars, lockVars, updVars, distVars>>
    \/ \E s \in StreamIds : ApiStop({"p1"}, MaxFleetCmds, s) /\ UNCHANGED <<frameVars, trkVars, dmxVars, hubVars, pipeVars, shutVars, lockVars, updVars, distVars>>
    \/ \E h \in Handlers : StartCheck("p1", h) /\ UNCHANGED <<frameVars, trkVars, dmxVars, hubVars, pipeVars, shutVars, lockVars, updVars, distVars>>
    \/ \E h \in Handlers : StartRegister("p1", h) /\ UNCHANGED <<frameVars, trkVars, dmxVars, hubVars, pipeVars, shutVars, lockVars, updVars, distVars>>
    \/ \E h \in Handlers : StopLookup("p1", h) /\ UNCHANGED <<frameVars, trkVars, dmxVars, hubVars, pipeVars, shutVars, lockVars, updVars, distVars>>
    \/ \E h \in Handlers : StopExtractor("p1", h) /\ UNCHANGED <<frameVars, trkVars, dmxVars, hubVars, pipeVars, shutVars, lockVars, updVars, distVars>>
    \/ \E h \in Handlers : StopCancel("p1", h) /\ UNCHANGED <<frameVars, trkVars, dmxVars, hubVars, pipeVars, shutVars, lockVars, updVars, distVars>>
    \/ \E l \in LoopIds : ExtractStart(l) /\ UNCHANGED <<frameVars, trkVars, dmxVars, hubVars, pipeVars, shutVars, lockVars, updVars, distVars>>
    \/ \E l \in LoopIds : \E out \in {"eof", "err"} :
           ExtractionEnds(l, out) /\ UNCHANGED <<frameVars, trkVars, dmxVars, hubVars, pipeVars, shutVars, lockVars, updVars, distVars>>
    \/ \E l \in LoopIds : BackoffDone(l) /\ UNCHANGED <<frameVars, trkVars, dmxVars, hubVars, pipeVars, shutVars, lockVars, updVars, distVars>>
    \/ \E l \in LoopIds : BackoffTimer(l) /\ UNCHANGED <<frameVars, trkVars, dmxVars, hubVars, pipeVars, shutVars, lockVars, updVars, distVars>>
    \/ \E l \in LoopIds : LoopExit(l) /\ UNCHANGED <<frameVars, trkVars, dmxVars, hubVars, pipeVars, shutVars, lockVars, updVars, distVars>>
    \/ \E l \in LoopIds : \E k \in FrameKeys : \E ok \in BOOLEAN :
           LoopCallbackPut(l, k, ok) /\ UNCHANGED <<mgrVars, trkVars, dmxVars, hubVars, pipeVars, shutVars, lockVars, updVars, distVars>>
    \/ \E ok \in BOOLEAN : LoopCallbackPublish(ok) /\ UNCHANGED <<mgrVars, trkVars, dmxVars, hubVars, pipeVars, shutVars, lockVars, updVars, distVars>>

InitExtraction == Init /\ streamType = [s \in StreamIds |-> "rtsp"]

SpecExtraction == InitExtraction /\ [][NextExtraction]_vars

\* A fleet of two ingestors, each dispatching its subscription's messages one
\* at a time; both are subscribed to the control subject.
NextFleet ==
    \/ \E s \in StreamIds : ApiStart(Procs, MaxFleetCmds, s) /\ UNCHANGED <<frameVars, trkVars, dmxVars, hubVars, pipeVars, shutVars, lockVars, updVars, distVars>>
    \/ \E s \in StreamIds : ApiStop(Procs, MaxFleetCmds, s) /\ UNCHANGED <<frameVars, trkVars, dmxVars, hubVars, pipeVars, shutVars, lockVars, updVars, distVars>>
    \/ \E p \in Procs : StartCheck(p, 1) /\ UNCHANGED <<frameVars, trkVars, dmxVars, hubVars, pipeVars, shutVars, lockVars, updVars, distVars>>
    \/ \E p \in Procs : StartResolveOk(p, 1) /\ UNCHANGED <<frameVars, trkVars, dmxVars, hubVars, pipeVars, shutVars, lockVars, updVars, distVars>>
    \/ \E p \in Procs : StartResolveFail(p, 1) /\ UNCHANGED <<frameVars, trkVars, dmxVars, hubVars, pipeVars, shutVars, lockVars, updVars, distVars>>
    \/ \E p \in Procs : StartRegister(p, 1) /\ UNCHANGED <<frameVars, trkVars, dmxVars, hubVars, pipeVars, shutVars, lockVars, updVars, distVars>>
    \/ \E p \in Procs : StopLookup(p, 1) /\ UNCHANGED <<frameVars, trkVars, dmxVars, hubVars, pipeVars, shutVars, lockVars, updVars, distVars>>
    \/ \E p \in Procs : StopExtractor(p, 1) /\ UNCHANGED <<frameVars, trkVars, dmxVars, hubVars, pipeVars, shutVars, lockVars, updVars, distVars>>
    \/ \E p \in Procs : StopCancel(p, 1) /\ UNCHANGED <<frameVars, trkVars, dmxVars, hubVars, pipeVars, shutVars, lockVars, updVars, distVars>>
    \/ \E l \in LoopIds : ExtractStart(l) /\ UNCHANGED <<frameVars, trkVars, dmxVars, hubVars, pipeVars, shutVars, lockVars, updVars, distVars>>
    \/ \E l \in LoopIds : \E out \in {"eof", "err"} :
           ExtractEnd(l, out) /\ UNCHANGED <<frameVars, trkVars, dmxVars, hubVars, pipeVars, shutVars, lockVars, updVars, distVars>>
    \/ \E l \in LoopIds : BackoffDone(l) /\ UNCHANGED <<frameVars, trkVars, dmxVars, hubVars, pipeVars, shutVars, lockVars, updVars, distVars>>
    \/ \E l \in LoopIds : BackoffTimer(l) /\ UNCHANGED <<frameVars, trkVars, dmxVars, hubVars, pipeVars, shutVars, lockVars, updVars, distVars>>
    \/ \E l \in LoopIds : ResolveOk(l) /\ UNCHANGED <<frameVars, trkVars, dmxVars, hubVars, pipeVars, shutVars, lockVars, updVars, distVars>>
    \/ \E l \in LoopIds : ResolveFail(l) /\ UNCHANGED <<frameVars, trkVars, dmxVars, hubVars, pipeVars, shutVars, lockVars, updVars, distVars>>
    \/ \E l \in LoopIds : LoopExit(l) /\ UNCHANGED <<frameVars, trkVars, dmxVars, hubVars, pipeVars, shutVars, lockVars, updVars, distVars>>

SpecFleet == Init /\ [][NextFleet]_vars

\* The frame path: one extractor's callback, the cleanup pass, one worker
\* loop, the distributor.
NextFrames ==
    \/ \E k \in FrameKeys : \E ok \in BOOLEAN :
           CallbackPut(k, ok) /\ UNCHANGED <<mgrVars, trkVars, dmxVars, hubVars, pipeVars, shutVars, lockVars, updVars, distVars>>
    \/ \E ok \in BOOLEAN : CallbackPublish(ok) /\ UNCHANGED <<mgrVars, trkVars, dmxVars, hubVars, pipeVars, shutVars, lockVars, updVars, distVars>>
    \/ CleanupFrames /\ UNCHANGED <<mgrVars, trkVars, dmxVars, hubVars, pipeVars, shutVars, lockVars, updVars, distVars>>
    \/ \E task \in framesQ : WorkerFetch(task) /\ UNCHANGED <<mgrVars, trkVars, dmxVars, hubVars, pipeVars, shutVars, lockVars, updVars, distVars>>
    \/ \E ok \in BOOLEAN : WorkerLoad(ok) /\ UNCHANGED <<mgrVars, trkVars, dmxVars, hubVars, pipeVars, shutVars, lockVars, updVars, distVars>>
    \/ \E n \in 0..1 : \E ok \in BOOLEAN :
           WorkerPublish(n, ok) /\ UNCHANGED <<mgrVars, trkVars, dmxVars, hubVars, pipeVars, shutVars, lockVars, updVars, distVars>>
    \/ PublishGarbage /\ UNCHANGED <<mgrVars, trkVars, dmxVars, hubVars, pipeVars, shutVars, lockVars, updVars, distVars>>
    \/ WorkerParseFail /\ UNCHANGED <<mgrVars, trkVars, dmxVars, hubVars, pipeVars, shutVars, lockVars, updVars, distVars>>
    \/ WorkerAnswer /\ UNCHANGED <<mgrVars, trkVars, dmxVars, hubVars, pipeVars, shutVars, lockVars, updVars, distVars>>
    \/ DistributorHandle /\ UNCHANGED <<mgrVars, trkVars, dmxVars, hubVars, pipeVars, shutVars, lockVars, updVars, distVars>>

SpecFrames == Init /\ [][NextFrames]_vars

\* One worker process: its loops running ProcessFrame up to the tracker.
NextWorker ==
    \/ \E w \in Workers : \E s \in StreamIds : \E dets \in DetLists :
           WorkerTake(w, s, dets) /\ UNCHANGED <<mgrVars, frameVars, dmxVars, hubVars, pipeVars, shutVars, lockVars, updVars, distVars>>
    \/ \E w \in Workers : GetTrackerLookup(w) /\ UNCHANGED <<mgrVars, frameVars, dmxVars, hubVars, pipeVars, shutVars, lockVars, updVars, distVars>>
    \/ \E w \in Workers : GetTrackerCreate(w) /\ UNCHANGED <<mgrVars, frameVars, dmxVars, hubVars, pipeVars, shutVars, lockVars, updVars, distVars>>
    \/ MapWriteAbort /\ UNCHANGED <<mgrVars, frameVars, dmxVars, hubVars, pipeVars, shutVars, lockVars, updVars, distVars>>
    \/ \E w \in Workers : TrackerUpdate(w) /\ UNCHANGED <<mgrVars, frameVars, dmxVars, hubVars, pipeVars, shutVars, lockVars, updVars, distVars>>

SpecWorker == Init /\ [][NextWorker]_vars

\* One readJPEGFrames call on a given input.
NextDemux ==
    \/ DemuxCancelled /\ UNCHANGED <<mgrVars, frameVars, trkVars, hubVars, pipeVars, shutVars, lockVars, updVars, distVars>>
    \/ \E ok \in BOOLEAN :
           DemuxFrame(ok) /\ UNCHANGED <<mgrVars, frameVars, trkVars, hubVars, pipeVars, shutVars, lockVars, updVars, distVars>>
    \/ DemuxStartupRetry /\ UNCHANGED <<mgrVars, frameVars, trkVars, hubVars, pipeVars, shutVars, lockVars, updVars, distVars>>
    \/ DemuxReturn /\ UNCHANGED <<mgrVars, frameVars, trkVars, hubVars, pipeVars, shutVars, lockVars, updVars, distVars>>

\* The hub, its clients' pumps and the distributor's BroadcastEvent calls.
NextHub ==
    \/ \E c \in Clients : \E f \in Filters :
           Connect(c, f) /\ UNCHANGED <<mgrVars, frameVars, trkVars, dmxVars, pipeVars, shutVars, lockVars, updVars, distVars>>
    \/ \E c \in Clients : HubRegister(c) /\ UNCHANGED <<mgrVars, frameVars, trkVars, dmxVars, pipeVars, shutVars, lockVars, updVars, distVars>>
    \/ \E c \in Clients : ReadFail(c) /\ UNCHANGED <<mgrVars, frameVars, trkVars, dmxVars, pipeVars, shutVars, lockVars, updVars, distVars>>
    \/ \E c \in Clients : HubUnregister(c) /\ UNCHANGED <<mgrVars, frameVars, trkVars, dmxVars, pipeVars, shutVars, lockVars, updVars, distVars>>
    \/ \E c \in Clients : \E ok \in BOOLEAN :
           WritePumpSend(c, ok) /\ UNCHANGED <<mgrVars, frameVars, trkVars, dmxVars, pipeVars, shutVars, lockVars, updVars, distVars>>
    \/ \E c \in Clients : WritePumpEnd(c) /\ UNCHANGED <<mgrVars, frameVars, trkVars, dmxVars, pipeVars, shutVars, lockVars, updVars, distVars>>
    \/ \E m \in EventStreams :
           BroadcastEvent(m) /\ UNCHANGED <<mgrVars, frameVars, trkVars, dmxVars, pipeVars, shutVars, lockVars, updVars, distVars>>
    \/ HubTakeBroadcast /\ UNCHANGED <<mgrVars, frameVars, trkVars, dmxVars, pipeVars, shutVars, lockVars, updVars, distVars>>
    \/ \E c \in Clients : BroadcastVisit(c) /\ UNCHANGED <<mgrVars, frameVars, trkVars, dmxVars, pipeVars, shutVars, lockVars, updVars, distVars>>
    \/ BroadcastDone /\ UNCHANGED <<mgrVars, frameVars, trkVars, dmxVars, pipeVars, shutVars, lockVars, updVars, distVars>>

\* The API process with no client connected; the stream rows play no part.
InitHub == Init /\ streamType = [s \in StreamIds |-> "rtsp"]

SpecHub == InitHub /\ [][NextHub]_vars

\* The same with the Run goroutine always scheduled again.
SpecHubLive == InitHub /\ [][NextHub]_vars /\ WF_vars(HubRun)

InitDemux ==
    /\ MgrInit /\ FrameInit /\ TrackerInit /\ DemuxInit /\ HubInit /\ PipeIdle
    /\ ShutIdle /\ LockIdle /\ UpdIdle /\ DistIdle

SpecDemux == InitDemux /\ [][NextDemux]_vars

\* One stream's frames through the recognition steps of one worker loop.
NextPipeline ==
    \/ PipeTick /\ UNCHANGED <<mgrVars, frameVars, trkVars, dmxVars, hubVars, shutVars, lockVars, updVars, distVars>>
    \/ FrameCallback /\ UNCHANGED <<mgrVars, frameVars, trkVars, dmxVars, hubVars, shutVars, lockVars, updVars, distVars>>
    \/ ProcessFrameNoFaces /\ UNCHANGED <<mgrVars, frameVars, trkVars, dmxVars, hubVars, shutVars, lockVars, updVars, distVars>>
    \/ \E dets \in PipeDetLists : \E order \in Orders(DOMAIN tracker.tracks) :
           /\ ProcessFrameTrack(dets, order)
           /\ UNCHANGED <<mgrVars, frameVars, trkVars, dmxVars, hubVars, shutVars, lockVars, updVars, distVars>>
    \/ \E o \in Outcomes :
           ProcessFrameSteps(o) /\ UNCHANGED <<mgrVars, frameVars, trkVars, dmxVars, hubVars, shutVars, lockVars, updVars, distVars>>

\* The stream is an RTSP one; its manager and the other parts stay idle.
InitPipeline ==
    /\ MgrInit /\ FrameInit /\ TrackerInit /\ DemuxIdle /\ HubInit /\ PipeInit
    /\ ShutIdle /\ LockIdle /\ UpdIdle /\ DistIdle
    /\ streamType = [s \in StreamIds |-> "rtsp"]

SpecPipeline == InitPipeline /\ [][NextPipeline]_vars

\* The same worker loop on a stream whose frames show two faces or none.
NextTwoFaces ==
    \/ PipeTick /\ UNCHANGED <<mgrVars, frameVars, trkVars, dmxVars, hubVars, shutVars, lockVars, updVars, distVars>>
    \/ FrameCallback /\ UNCHANGED <<mgrVars, frameVars, trkVars, dmxVars, hubVars, shutVars, lockVars, updVars, distVars>>
    \/ ProcessFrameNoFaces /\ UNCHANGED <<mgrVars, frameVars, trkVars, dmxVars, hubVars, shutVars, lockVars, updVars, distVars>>
    \/ \E dets \in TwoFaceLists : \E order \in Orders(DOMAIN tracker.tracks) :
           /\ ProcessFrameTrack(dets, order)
           /\ UNCHANGED <<mgrVars, frameVars, trkVars, dmxVars, hubVars, shutVars, lockVars, updVars, distVars>>
    \/ \E o \in Outcomes :
           ProcessFrameSteps(o) /\ UNCHANGED <<mgrVars, frameVars, trkVars, dmxVars, hubVars, shutVars, lockVars, updVars, distVars>>

\* That stream is bound to the collection c1.
InitTwoFaces == InitPipeline /\ binding = "c1"

SpecTwoFaces == InitTwoFaces /\ [][NextTwoFaces]_vars

\* The worker process from start-up to exit.
NextShutdown ==
    \/ FetchSend /\ UNCHANGED <<mgrVars, frameVars, trkVars, dmxVars, hubVars, pipeVars, lockVars, updVars, distVars>>
    \/ FetchReturn /\ UNCHANGED <<mgrVars, frameVars, trkVars, dmxVars, hubVars, pipeVars, lockVars, updVars, distVars>>
    \/ \E w \in Workers :
           LoopReceive(w) /\ UNCHANGED <<mgrVars, frameVars, trkVars, dmxVars, hubVars, pipeVars, lockVars, updVars, distVars>>
    \/ \E w \in Workers : \E err \in BOOLEAN :
           LoopAnswer(w, err) /\ UNCHANGED <<mgrVars, frameVars, trkVars, dmxVars, hubVars, pipeVars, lockVars, updVars, distVars>>
    \/ MainCancel /\ UNCHANGED <<mgrVars, frameVars, trkVars, dmxVars, hubVars, pipeVars, lockVars, updVars, distVars>>
    \/ MainExit /\ UNCHANGED <<mgrVars, frameVars, trkVars, dmxVars, hubVars, pipeVars, lockVars, updVars, distVars>>

InitShutdown ==
    /\ MgrInit /\ FrameInit /\ TrackerInit /\ DemuxIdle /\ HubInit /\ PipeIdle
    /\ ShutInit /\ LockIdle /\ UpdIdle /\ DistIdle
    /\ streamType = [s \in StreamIds |-> "rtsp"]

SpecShutdown == InitShutdown /\ [][NextShutdown]_vars

\* Two worker loops of one process on the frames of one stream.
NextLocks ==
    \/ \E w \in Workers : \E dets \in PipeDetLists :
           PfTake(w, dets) /\ UNCHANGED <<mgrVars, frameVars, trkVars, dmxVars, hubVars, pipeVars, shutVars, updVars, distVars>>
    \/ \E w \in Workers : \E order \in Orders(DOMAIN guarded.tracks) :
           UpdateLock(w, order) /\ UNCHANGED <<mgrVars, frameVars, trkVars, dmxVars, hubVars, pipeVars, shutVars, updVars, distVars>>
    \/ \E w \in Workers : UpdateUnlock(w) /\ UNCHANGED <<mgrVars, frameVars, trkVars, dmxVars, hubVars, pipeVars, shutVars, updVars, distVars>>
    \/ \E w \in Workers : \E need \in BOOLEAN :
           PfShouldRecognize(w, need) /\ UNCHANGED <<mgrVars, frameVars, trkVars, dmxVars, hubVars, pipeVars, shutVars, updVars, distVars>>
    \/ \E w \in Workers : PfRecognize(w) /\ UNCHANGED <<mgrVars, frameVars, trkVars, dmxVars, hubVars, pipeVars, shutVars, updVars, distVars>>
    \/ \E w \in Workers : PfResult(w) /\ UNCHANGED <<mgrVars, frameVars, trkVars, dmxVars, hubVars, pipeVars, shutVars, updVars, distVars>>

InitLocks ==
    /\ MgrInit /\ FrameInit /\ TrackerInit /\ DemuxIdle /\ HubInit /\ PipeIdle
    /\ ShutIdle /\ LockInit /\ UpdIdle /\ DistIdle
    /\ streamType = [s \in StreamIds |-> "rtsp"]

SpecLocks == InitLocks /\ [][NextLocks]_vars

\* One tracker given one frame's detections after another.
NextUpdate ==
    \/ \E dets \in UpdDetLists : \E order \in Orders(DOMAIN tk.tracks) :
           /\ UpdateCall(dets, order)
           /\ UNCHANGED <<mgrVars, frameVars, trkVars, dmxVars, hubVars, pipeVars, shutVars, lockVars, distVars>>
    \/ FrameNoFaces /\ UNCHANGED <<mgrVars, frameVars, trkVars, dmxVars, hubVars, pipeVars, shutVars, lockVars, distVars>>

InitUpdate ==
    /\ MgrInit /\ FrameInit /\ TrackerInit /\ DemuxIdle /\ HubInit /\ PipeIdle
    /\ ShutIdle /\ LockIdle /\ UpdInit /\ DistIdle
    /\ streamType = [s \in StreamIds |-> "rtsp"]

SpecUpdate == InitUpdate /\ [][NextUpdate]_vars

\* The EVENTS stream and the API's consumer of it.
NextDistributor ==
    \/ EventPublished /\ UNCHANGED <<mgrVars, frameVars, trkVars, dmxVars, hubVars, pipeVars, shutVars, lockVars, updVars>>
    \/ \E e \in EventIds : DistFetch(e) /\ UNCHANGED <<mgrVars, frameVars, trkVars, dmxVars, hubVars, pipeVars, shutVars, lockVars, updVars>>
    \/ \E dbOk \in BOOLEAN : DistHandle(dbOk) /\ UNCHANGED <<mgrVars, frameVars, trkVars, dmxVars, hubVars, pipeVars, shutVars, lockVars, updVars>>
    \/ \E arrives \in BOOLEAN : DistAck(arrives) /\ UNCHANGED <<mgrVars, frameVars, trkVars, dmxVars, hubVars, pipeVars, shutVars, lockVars, updVars>>

InitDistributor ==
    /\ MgrInit /\ FrameInit /\ TrackerInit /\ DemuxIdle /\ HubInit /\ PipeIdle
    /\ ShutIdle /\ LockIdle /\ UpdIdle /\ DistInit
    /\ streamType = [s \in StreamIds |-> "rtsp"]

SpecDistributor == InitDistributor /\ [][NextDistributor]_vars

Spec == SpecManager

\* ------------------------------------------------------------------------
\* Properties of the stream manager
\* ------------------------------------------------------------------------

\* Loops of process p for stream s that are still before their final status
\* write.
ActiveLoops(p, s) ==
    {l \in LoopIds : /\ loops[l].proc = p
                     /\ loops[l].sid = s
                     /\ loops[l].pc \in {"launched", "running", "backoff", "resolve"}}

RunningExtractors(s) ==
    {l \in LoopIds : loops[l].sid = s /\ loops[l].pc = "running"}

Entries(p) == {s \in StreamIds : streams[p][s] # 0}

\* Process p has no entry for stream s and an extraction loop of p for s has
\* run its deferred exit.
LoopGone(p, s) ==
    /\ ~Exists(streams[p], s)
    /\ \E l \in LoopIds :
           loops[l].proc = p /\ loops[l].sid = s /\ loops[l].pc = "done"

C2_OneExtractorPerFleet ==
    \A s \in StreamIds :
        startsPublished[s] <= 1 => Cardinality(RunningExtractors(s)) <= 1

\* C6: the number of entries in the stream map is at most the number of start
\* commands handled minus the number of extraction loops that have exited.
C6_EntriesBounded ==
    \A p \in Procs : Cardinality(Entries(p)) <= startsHandled[p] - exits[p]

C6_Witness ==
    \E p \in Procs :
        /\ exits[p] >= 1
        /\ Cardinality(Entries(p)) = 1
        /\ startsHandled[p] - exits[p] = 1

\* No stop has reached loop l.
NoStop(l) == ~loops[l].cancelled /\ ~loops[l].killed

C8_StopEndsStopped ==
    \A l \in LoopIds :
        (loops[l].pc = "exit" /\
         loops[l].stoppedIn \in {"launched", "running", "backoff", "resolve"})
            => loops[l].lastStatus = "stopped"

\* C9: stop is idempotent: applying stop to an entry twice in a row gives the
\* state one stop gives; a stop that completes on a scope already cancelled
\* changes nothing; a stop for an id with no entry changes nothing; each
\* returns success.
C9_StopIdempotent ==
    /\ [](\A l \in LoopIds : StopApply(StopApply(loops, l), l) = StopApply(loops, l))
    /\ [][\A p \in Procs : \A h \in Handlers :
            (/\ handlers[p][h].pc = "stopCancel"
             /\ handlers'[p][h].pc = "idle"
             /\ loops[handlers[p][h].as].cancelled)
            => (/\ loops' = loops
                /\ streams' = streams
                /\ dbStatus' = dbStatus
                /\ lastResult'[p] = "ok")]_vars
    /\ [][\A p \in Procs :
            (/\ inbox[p] # <<>>
             /\ inbox'[p] = Tail(inbox[p])
             /\ Head(inbox[p]).action = "stop"
             /\ streams[p][Head(inbox[p]).sid] = 0)
            => (/\ loops' = loops
                /\ streams' = streams
                /\ dbStatus' = dbStatus
                /\ handlers' = handlers
                /\ lastResult'[p] = "ok")]_vars

\* A second stop is about to complete on a loop an earlier stop cancelled.
C9_Witness ==
    \E p \in Procs : \E h \in Handlers :
        /\ handlers[p][h].pc = "stopCancel"
        /\ loops[handlers[p][h].as].cancelled
        /\ loops[handlers[p][h].as].killed
        /\ loops[handlers[p][h].as].pc = "running"

\* C10: a start command for a stream id that has an entry returns the
\* already-running error and leaves the stream map, the loops, the persisted
\* status and every callback's position as they were.
C10_DuplicateStartRejected ==
    [][\A p \in Procs :
        (/\ inbox[p] # <<>>
         /\ inbox'[p] = Tail(inbox[p])
         /\ Head(inbox[p]).action = "start"
         /\ streams[p][Head(inbox[p]).sid] # 0)
        => (/\ lastResult'[p] = "already running"
            /\ streams' = streams
            /\ loops' = loops
            /\ dbStatus' = dbStatus
            /\ handlers' = handlers)]_vars

C10_Witness ==
    \E p \in Procs : \E s \in StreamIds :
        /\ lastResult[p] = "already running"
        /\ streams[p][s] # 0
        /\ loops[streams[p][s]].pc = "running"

\* ------------------------------------------------------------------------
\* Properties of the frame path and of the tracker
\* ------------------------------------------------------------------------

\* C3: whenever the distributor writes a detection event, the frame blob
\* named by the frame key the event carries is still in the object store.
C3_FrameBlobExists ==
    \A i \in 1..Len(eventRows) : eventRows[i].refBlob

\* C39: a frame task is published only after the put of its blob under the
\* task's key has succeeded; for a frame whose put failed no task is
\* published.
C39_PublishAfterPut ==
    \A task \in framesQ : task.valid => task.key \in stored

\* A frame task is in the queue, and the put of another frame has failed.
C39_Witness ==
    /\ \E task \in framesQ : task.valid /\ task.deliveries = 0
    /\ usedKeys \ stored # {}

\* C4: in one worker process, no two distinct tracks of the same stream are
\* given the same track id, the lazy creation of the stream's tracker included.
C4_TrackIdsUnique ==
    \A a, b \in minted : (a.stream = b.stream /\ a.n = b.n) => a.obj = b.obj

\* Ids a tracker has given out whose track is no longer live.
Evicted(t) == {n \in 1..trackerObjs[t].nextID : n \notin DOMAIN trackerObjs[t].tracks}

\* C5: after every Update of a tracker, no two of its live tracks share an id
\* (every id was given out by this tracker's counter) and no live track has
\* gone more than maxAge frames without a matching detection.
C5_TracksDistinctAndFresh ==
    \A t \in 1..Len(trackerObjs) :
        LET tracks == trackerObjs[t].tracks
        IN /\ \A j, k \in DOMAIN tracks : tracks[j].ID = tracks[k].ID => j = k
           /\ \A k \in DOMAIN tracks :
                  /\ tracks[k].ID \in 1..trackerObjs[t].nextID
                  /\ tracks[k].TimeSinceUpdate <= TrackMaxAge

C5_Witness ==
    \E t \in 1..Len(trackerObjs) :
        /\ Evicted(t) # {}
        /\ Cardinality(DOMAIN trackerObjs[t].tracks) >= 2
        /\ \E k \in DOMAIN trackerObjs[t].tracks :
               trackerObjs[t].tracks[k].TimeSinceUpdate = TrackMaxAge

\* ------------------------------------------------------------------------
\* Properties of error handling in the ingestor
\* ------------------------------------------------------------------------

C12_CallbackFailureEndsAttempt ==
    [][cb.failed => usedKeys' = usedKeys]_vars

\* ------------------------------------------------------------------------
\* Properties of the JPEG demultiplexer
\* ------------------------------------------------------------------------

\* readJPEGFrames has returned of its own accord (not on cancellation).
Returned == dmxResult \notin {"running", "ctx"}

\* C13: fed the concatenation of N valid JPEGs (fill bytes before a marker
\* allowed), the demultiplexer calls the callback exactly N times, once per
\* JPEG, with exactly that JPEG's bytes, in input order.
C13_DemuxRoundTrip ==
    (Returned /\ cut = 0) => emitted = jpegs

\* The last JPEG of the input is cut before its end marker and after its
\* start marker.
Truncated ==
    /\ jpegs # <<>>
    /\ cut >= 2
    /\ cut <= Len(jpegs[Len(jpegs)]) - 2

\* The complete JPEGs of the input.
Complete == SubSeq(jpegs, 1, Len(jpegs) - 1)

\* A JPEG in which no FF is directly followed by another FF (no fill bytes).
NoFill(j) == \A i \in 1..(Len(j) - 1) : ~(j[i] = FF /\ j[i + 1] = FF)

C36_StartupRetries ==
    /\ [](/\ startupRetries <= MaxStartupRetries
          /\ startupRetries > 0 => emitted = <<>>
          /\ dmxResult = "no frames" =>
                 (startupRetries = MaxStartupRetries /\ emitted = <<>>)
          /\ dmxResult = "nil" => emitted # <<>>)
    /\ [][(dmxResult = "running" /\ Returned' /\ FindJPEGStart(rd).err = "EOF") =>
              dmxResult' = IF emitted # <<>> THEN "nil" ELSE "no frames"]_vars

\* The reader gave up after fifty retries.
C36_Witness ==
    dmxResult = "no frames" /\ startupRetries = MaxStartupRetries

\* ------------------------------------------------------------------------
\* Properties of the frame consumer
\* ------------------------------------------------------------------------

\* Deliveries of message k that were made and answered, n being the number of
\* deliveries made so far and done with.
Answered(k, n) == \A d \in 1..n : <<k, d>> \in acks \cup naks

\* C15: every frame message a worker loop takes is answered exactly once: no
\* delivery is both acked and nacked, a delivery is unanswered only while its
\* handler runs, an unparseable payload is acked (never nacked), and the
\* answer is a nack exactly when the handler returned a processing error.
C15_AnsweredOnce ==
    /\ [](/\ acks \cap naks = {}
          /\ \A t \in framesQ : Answered(t.key, t.deliveries)
          /\ inflight.pc # "idle" =>
                 /\ Answered(inflight.key, inflight.deliveries - 1)
                 /\ <<inflight.key, inflight.deliveries>> \notin acks \cup naks
          /\ \A a \in naks : a[1] \in FrameKeys)
    /\ [][(inflight.pc = "returned" /\ inflight'.pc = "idle")
          => LET a == <<inflight.key, inflight.deliveries>> IN
             /\ inflight.err => (naks' = naks \cup {a} /\ acks' = acks)
             /\ ~inflight.err => (acks' = acks \cup {a} /\ naks' = naks)]_vars

C15_Witness ==
    /\ \E a \in acks : a[1] \notin FrameKeys
    /\ \E a \in acks : a[1] \in FrameKeys
    /\ naks # {}
    /\ inflight.pc = "idle"

\* C16: a frame task whose processing fails on every delivery is delivered at
\* most MaxDeliver times (so redelivered at most 3 times after its first
\* delivery) and, once its MaxDeliver-th delivery was nacked, it is not in the
\* queue nor with a worker: it is never delivered again.
C16_BoundedRedelivery ==
    /\ \A t \in framesQ : t.deliveries < MaxDeliver
    /\ inflight.deliveries <= MaxDeliver
    /\ \A a \in naks :
           /\ a[2] <= MaxDeliver
           /\ a[2] - 1 <= 3
           /\ a[2] = MaxDeliver =>
                  /\ \A t \in framesQ : t.key # a[1]
                  /\ inflight.key # a[1]

C16_Witness ==
    \E k \in FrameKeys :
        /\ \A d \in 1..MaxDeliver : <<k, d>> \in naks
        /\ \A t \in framesQ : t.key # k
        /\ inflight.pc = "idle"

\* C17: a frame task is acked only if every detection event the pipeline
\* produced for it in that delivery was published on the event subject.
C17_AckOnlyIfPublished ==
    acks \cap lostEvents = {}

\* C18: processing the same frame task twice (a redelivery of an already
\* processed frame) leaves the stream's tracker (track set, hits,
\* time-since-update, next track number) as processing it once does.
C18_RedeliveryIdempotent ==
    \A t \in 1..Len(trackerObjs) : \A dets \in DetLists :
        \A o1 \in Orders(DOMAIN trackerObjs[t].tracks) :
            LET once == Update(trackerObjs[t], dets, o1) IN
            \A o2 \in Orders(DOMAIN once.tracks) : Update(once, dets, o2) = once

\* ------------------------------------------------------------------------
\* Properties of the WebSocket hub
\* ------------------------------------------------------------------------

\* C19: in a broadcast, a matching subscriber whose send buffer is full when
\* it is reached is removed from the client set and its buffer is closed, and
\* every other matching subscriber the loop has passed received the event and
\* is still registered; the loop passes every subscriber registered at its
\* start (toVisit is empty when it is over).
C19_SlowSubscriberDropped ==
    hub.pc = "broadcast" =>
        \A c \in hub.start :
            (c \notin hub.toVisit /\ Matches(c, hub.msg)) =>
                IF c \in hub.dropped
                THEN c \notin hubClients /\ cl[c].closes = 1
                ELSE /\ c \in hub.delivered
                     /\ c \in hubClients
                     /\ cl[c].closes = 0

C19_Witness ==
    /\ hub.pc = "broadcast"
    /\ hub.toVisit = {}
    /\ hub.dropped # {}
    /\ hub.delivered # {}

\* C20: a subscriber's send buffer is never closed twice, and once the
\* subscriber has left (its readPump has ended) it is eventually closed.
C20_ClosedExactlyOnce ==
    /\ [](\A c \in Clients : cl[c].closes <= 1)
    /\ \A c \in Clients :
           (cl[c].rp \in {"unregister", "done"}) ~> (cl[c].closes = 1)

C20_Witness ==
    \E c \in Clients :
        /\ cl[c].slow
        /\ cl[c].closes = 1
        /\ cl[c].rp = "done"

\* ------------------------------------------------------------------------
\* Properties of the hub's delivery
\* ------------------------------------------------------------------------

\* C21: the events placed in a subscriber's send buffer (got records their
\* sequence numbers, in the order they were placed) are in the order in which
\* they were passed to BroadcastEvent: the hub never reorders two events of
\* one subscriber.
C21_OrderPerSubscriber ==
    \A c \in Clients :
        /\ \A i, j \in DOMAIN cl[c].got : i < j => cl[c].got[i] < cl[c].got[j]
        /\ \A i, j \in DOMAIN cl[c].send :
               i < j => cl[c].send[i].seq < cl[c].send[j].seq

\* A subscriber has been handed two events.
C21_Witness == \E c \in Clients : Len(cl[c].got) = 2

\* C22: a subscriber with a non-empty filter F is never enqueued an event of
\* another stream, and once the range over the clients is over every
\* subscriber without a filter that was registered when the broadcast began
\* has been offered the event (enqueued, or dropped because its buffer was
\* full).
C22_FilterRespected ==
    /\ \A c \in Clients :
           cl[c].filter # "" =>
               \A i \in DOMAIN cl[c].send : cl[c].send[i].stream = cl[c].filter
    /\ (hub.pc = "broadcast" /\ hub.toVisit = {}) =>
           \A c \in hub.start :
               cl[c].filter = "" => c \in hub.delivered \cup hub.dropped

\* A broadcast reached a subscriber without a filter and skipped one whose
\* filter names another stream.
C22_Witness ==
    /\ hub.pc = "broadcast" /\ hub.toVisit = {}
    /\ \E c, d \in hub.start :
           /\ cl[c].filter = "" /\ c \in hub.delivered
           /\ cl[d].filter = "s1" /\ hub.msg.stream = "s2"
           /\ d \notin hub.delivered \cup hub.dropped

\* C38: every client in the hub's client set has an open send buffer (a
\* client whose buffer was closed, by unregister or as a slow subscriber, is
\* not in the set), and nothing is ever sent on a closed buffer.
C38_NoSendOnClosed ==
    /\ [](\A c \in hubClients : cl[c].closes = 0)
    /\ [][\A c \in Clients :
              Len(cl'[c].send) > Len(cl[c].send) => cl[c].closes = 0]_vars

\* A slow subscriber has been closed and removed in the middle of a broadcast
\* loop that still has a registered client to visit.
C38_Witness ==
    /\ hub.pc = "broadcast"
    /\ hub.dropped # {}
    /\ hub.toVisit \cap hubClients # {}

\* ------------------------------------------------------------------------
\* Properties of the recognition steps
\* ------------------------------------------------------------------------

\* C23: should-recognize returns true if and only if the track's hits are at
\* least min-hits and either the track has no embedding or the time since its
\* last recognition is at least the interval.
C23_ShouldRecognize ==
    lastCall.called =>
        (lastCall.result <=>
            /\ lastCall.Hits >= MinHits
            /\ (~lastCall.hasEmbedding \/ lastCall.since >= ReRecognizeInterval))

\* should-recognize has been called on a confirmed track within the interval,
\* and the answer was no.
C23_Witness ==
    /\ lastCall.called /\ ~lastCall.result
    /\ lastCall.Hits >= MinHits /\ lastCall.hasEmbedding

\* C24 as stated: for a track whose embedding was set at t0, should-recognize
\* returns false at every time in [t0, t0+interval) and true at t0+interval.
C24_ThrottleAnyTrack ==
    (lastCall.called /\ lastCall.hasEmbedding) =>
        /\ lastCall.since < ReRecognizeInterval => ~lastCall.result
        /\ lastCall.since = ReRecognizeInterval => lastCall.result

\* C24, amended: false at every time in [t0, t0+interval); at t0+interval (and
\* later) true exactly when the track's hits have reached min-hits.
C24_Throttle ==
    (lastCall.called /\ lastCall.hasEmbedding) =>
        /\ lastCall.since < ReRecognizeInterval => ~lastCall.result
        /\ lastCall.since >= ReRecognizeInterval =>
               (lastCall.result <=> lastCall.Hits >= MinHits)

\* should-recognize answered yes exactly one interval after the embedding of
\* a confirmed track was set.
C24_Witness ==
    /\ lastCall.called /\ lastCall.hasEmbedding /\ lastCall.result
    /\ lastCall.since = ReRecognizeInterval

\* C25: only the first sighting of a track writes a snapshot blob, and every
\* event of a later re-recognition of the track carries the key stored then.
C25_SnapshotKeyReused ==
    /\ \A k1, k2 \in snapshots : k1[1] = k2[1] => k1 = k2
    /\ \A e \in results : \A k \in snapshots :
           (~e.first /\ k[1] = e.TrackID) => e.SnapshotKey = k

\* C26: every frame task of a stream bound to collection C carries C, and
\* every face search for its frames is restricted to C (unrestricted when the
\* stream has no binding).
C26_CollectionScoped ==
    /\ \A i \in DOMAIN frameTasks : frameTasks[i].CollectionID = binding
    /\ \A c \in searches : c = binding

\* C30: every published event carries an embedding of EmbDim components whose
\* L2 norm lies in [0.999, 1.001], that is, whose squared norm
\* SumSq(v) / d2 lies in [0.998001, 1.002001].
C30_UnitEmbedding ==
    \A e \in results :
        /\ Len(e.Embedding.v) = EmbDim
        /\ 998001 * e.Embedding.d2 <= 1000000 * SumSq(e.Embedding.v)
        /\ 1000000 * SumSq(e.Embedding.v) <= 1002001 * e.Embedding.d2

\* ------------------------------------------------------------------------
\* Liveness of a start request
\* ------------------------------------------------------------------------

\* C27: once a Start request is accepted (status starting, start command
\* published), the stream's persisted status eventually becomes running or
\* error, whatever Stop/Start requests come before or after it.
C27_StartTakesEffect ==
    \A s \in StreamIds :
        (dbStatus[s].status = "starting") ~> (dbStatus[s].status \in {"running", "error"})

\* ------------------------------------------------------------------------
\* Order of the frame tasks of one extractor attempt
\* ------------------------------------------------------------------------

\* C28: within one extractor attempt the frame tasks are published in capture
\* order: a frame emitted before another has its task stored before the
\* other's, frames whose callback failed being absent.
C28_CaptureOrder ==
    /\ \A i, j \in DOMAIN framesLog : i < j => framesLog[i] < framesLog[j]
    /\ \A i \in DOMAIN framesLog : framesLog[i] \in 1..framesRead

\* Two frames were emitted and the tasks of both were published.
C28_Witness == Len(framesLog) = 2 /\ Len(emitted) = 2

\* ------------------------------------------------------------------------
\* Worker shutdown
\* ------------------------------------------------------------------------

\* Messages handed to a handler or queued for a worker loop, not yet answered.
Unanswered ==
    ({handling[w] : w \in Workers} \ {0}) \cup {msgCh[i] : i \in DOMAIN msgCh}

\* C29: on shutdown the fetch loop stops fetching, and every frame message
\* already handed to a handler or queued for a worker loop is acked or nacked
\* before the worker process exits.
C29_DrainedBeforeExit ==
    /\ [](mainPc = "exited" => Unanswered = {})
    /\ [][fetchPc = "returned" => fetched' = fetched]_vars

\* ------------------------------------------------------------------------
\* Properties of the worker loops sharing a tracker
\* ------------------------------------------------------------------------

\* C31: no field of a track is read or written by one worker loop while
\* another worker loop writes it (as holding t.mu for every access would
\* ensure).
C31_TrackAccessExclusive ==
    \A w1, w2 \in Workers :
        w1 # w2 => \A a \in Access(w1) : \A b \in Access(w2) : ~Conflicting(a, b)

\* ------------------------------------------------------------------------
\* Properties of Tracker.Update
\* ------------------------------------------------------------------------

\* x >= y for two fractions.
AtLeast(x, y) == ~Greater(y, x)

\* The tracks detection di of the last call could be associated with: those
\* no earlier detection was associated with and whose IoU with it is >= 0.3.
Candidates(di) ==
    {k \in DOMAIN call.old.tracks \ {call.assoc[j] : j \in 1..(di - 1)} :
        AtLeast(Iou(call.dets[di].BBox, call.old.tracks[k].BBox), <<3, 10>>)}

\* C32: Update takes the detections in input order; a detection is
\* associated with a track iff some not-yet-matched track has IoU >= 0.3 with
\* it, and then with one of highest IoU; no track gets two detections, and
\* there is one update per detection.
C32_GreedyMatching ==
    call.made =>
        /\ \A di \in 1..Len(call.dets) :
               /\ call.assoc[di] # 0 <=> Candidates(di) # {}
               /\ call.assoc[di] # 0 =>
                      /\ call.assoc[di] \in Candidates(di)
                      /\ \A k \in Candidates(di) :
                             AtLeast(Iou(call.dets[di].BBox,
                                         call.old.tracks[call.assoc[di]].BBox),
                                     Iou(call.dets[di].BBox, call.old.tracks[k].BBox))
        /\ \A i, j \in 1..Len(call.dets) :
               (i # j /\ call.assoc[i] # 0) => call.assoc[i] # call.assoc[j]
        /\ Len(call.updates) = Len(call.dets)

\* C33: Update is deterministic: the same tracker state and the same
\* detections give the same associations and the same resulting state (new
\* track ids included), whatever order the tracks are visited in.
C33_UpdateDeterministic ==
    call.made =>
        \A order \in Orders(DOMAIN call.old.tracks) :
            /\ Associations(call.old.tracks, call.dets, order, 1, {}) = call.assoc
            /\ Update(call.old, call.dets, order) = call.new

\* C34: after any processed frame of the stream, frames without a face
\* included, no live track has gone more than max-age processed frames since
\* a detection last matched it.
C34_StaleTracksDeleted ==
    \A k \in DOMAIN tk.tracks : sinceMatch[k] <= TrackMaxAge

\* C35: an event is published for an update only if its track is new or
\* should-recognize is true for it, and at most one per update; a new track is
\* recognized in the frame that created it whatever its hits; a failure to
\* crop or embed one track skips that track only: every update of the frame
\* is handled and the frame returns success.
C35_EventsPerUpdate ==
    /\ \A i \in DOMAIN lastFrame.steps :
           LET s == lastFrame.steps[i]
           IN /\ s.events <= 1
              /\ s.events = 1 => (s.IsNew \/ s.need)
              /\ (s.IsNew /\ ~s.failed) => s.attempted
    /\ lastFrame.returned # "" =>
           /\ lastFrame.returned = "nil"
           /\ Len(lastFrame.steps) = lastFrame.n

\* A frame with two updates returned success: the embedding of the first
\* track failed, and the second, a new track below min-hits for which
\* should-recognize was false, had its event published.
C35_Witness ==
    /\ lastFrame.returned = "nil" /\ lastFrame.n = 2
    /\ lastFrame.steps[1].failed
    /\ lastFrame.steps[2].IsNew /\ ~lastFrame.steps[2].need
    /\ lastFrame.steps[2].events = 1

\* ------------------------------------------------------------------------
\* Properties of the distributor
\* ------------------------------------------------------------------------

\* How many entries of the log q were made from event e.
Count(q, e) == Cardinality({i \in DOMAIN q : q[i] = e})

\* C37: each detection event leads to at most one row of the events table
\* and at most one broadcast, redeliveries of its message included.
C37_EventOnce ==
    \A e \in EventIds : Count(evRows, e) <= 1 /\ Count(evCasts, e) <= 1

=============================================================================
